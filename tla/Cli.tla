-------------------------------- MODULE Cli --------------------------------
(***************************************************************************)
(* One interactive session of holo-cli: main.rs enter_command, parser.rs    *)
(* parse_command and parse_command_try, session.rs, and the callbacks of    *)
(* internal_commands.rs that change the session.                            *)
(*                                                                          *)
(* The parser runs in small steps, one per word of the line and one per     *)
(* token of the back-tracking walk, because the walk moves the CLI stack of *)
(* the session while it searches.  The rest of a command is one step.       *)
(***************************************************************************)
EXTENDS Configuration

VARIABLES
  mode,        \* Session.mode: in configuration mode or not, and the CLI stack
  candidate,   \* Session.candidate, an Option
  running,     \* Session.running, the copy fetched at start-up
  hostname,    \* Session.hostname
  prompt,      \* Session.prompt
  pc,          \* where enter_command is
  cmd,         \* the locals of parse_command
  try          \* the locals of parse_command_try

session == <<mode, candidate, running, hostname, prompt>>
vars == <<session, pc, cmd, try>>

-----------------------------------------------------------------------------
(***************************************************************************)
(* The session.                                                             *)
(***************************************************************************)

\* An assignment of the mode followed by update_prompt.
MoveTo(m) == mode' = m /\ prompt' = PromptOf(hostname, m)

\* Session::mode_set
ModeSet(m) ==
  IF mode = m THEN UNCHANGED <<mode, candidate, prompt>>
  ELSE /\ candidate' = CASE m.config /\ ~mode.config -> Some(running)
                         [] ~m.config /\ mode.config -> NoCandidate
                         [] OTHER -> candidate
       /\ MoveTo(m)

-----------------------------------------------------------------------------
(***************************************************************************)
(* enter_command and parse_command.                                         *)
(***************************************************************************)

NoToken == <<"none", 0>>
ASSUME NoTokenAssumption == NoToken \notin Token \cup Roots

TryFrom(t) == [start |-> t, curr |-> t, next |-> 1, negate |-> FALSE, args |-> << >>]
IdleTry == TryFrom(NoToken)
IdleCmd == [line |-> << >>, orig |-> Operational, error |-> "none",
            climb |-> NoToken, child |-> NoToken]

\* enter_command returns, the error, if any, is printed, and the next line is read.
Return == pc' = "ready" /\ cmd' = IdleCmd /\ try' = IdleTry

\* A line is entered.  A line that is empty once comments and redundant
\* blanks are gone (normalize_input_line) changes nothing and is not in Lines.
Enter(line) ==
  /\ pc = "ready"
  /\ cmd' = [line |-> line, orig |-> mode, error |-> "none",
             climb |-> WdToken(mode), child |-> WdToken(mode)]
  /\ try' = TryFrom(WdToken(mode))
  /\ pc' = "words"
  /\ UNCHANGED session

CurrentWord == cmd.line[try.next]
AddInternal == try.next = 1 /\ mode.config

\* parse_command_try, loop body: a word selects a token.
MatchWord ==
  /\ pc = "words" /\ try.next <= Len(cmd.line)
  /\ \E t \in Selected(try.curr, AddInternal, CurrentWord) :
       try' = IF try.next = 1 /\ TokenName(t) = "no"
              THEN [try EXCEPT !.negate = TRUE, !.next = try.next + 1]
              ELSE [try EXCEPT !.curr = t, !.next = try.next + 1,
                      !.args = IF ~HasArgument(t) THEN try.args
                               ELSE Append(try.args, IF IsString(t) THEN CurrentWord
                                                     ELSE TokenName(t))]
  /\ UNCHANGED <<session, pc, cmd>>

\* parse_command_try returns an error; parse_command keeps the first one.
FailTry(error) ==
  /\ cmd' = [cmd EXCEPT !.error = IF cmd.error = "none" THEN error ELSE cmd.error]
  /\ pc' = "climb"
  /\ UNCHANGED <<session, try>>

\* parse_command_try, loop body: no token, or several and none is exact.
WordUnresolved ==
  /\ pc = "words" /\ try.next <= Len(cmd.line)
  /\ Selected(try.curr, AddInternal, CurrentWord) = {}
  /\ FailTry(IF MatchingTokens(try.curr, AddInternal, CurrentWord) = {}
             THEN "no-match" ELSE "ambiguous")

\* parse_command_try, after the loop.
IsCommand == try.curr # try.start /\ Action(try.curr) # "none"

CommandFound ==
  /\ pc = "words" /\ try.next > Len(cmd.line)
  /\ IsCommand
  /\ pc' = "run"
  /\ UNCHANGED <<session, cmd, try>>

CommandIncomplete ==
  /\ pc = "words" /\ try.next > Len(cmd.line)
  /\ ~IsCommand
  /\ FailTry(IF try.curr = try.start THEN "ambiguous" ELSE "incomplete")

\* Mutant: the walk ends at the innermost list.
WalkToList(t) == IF t \in Roots \/ NodeUpdate(t) THEN NoToken ELSE ParentToken(t)

\* parse_command, back-tracking.  The loop visits the ancestors of the current
\* CLI node, starting with itself; climb is the token of the next iteration
\* and child the one of the iteration before.
NextAncestor(t) == IF t \in Roots THEN NoToken ELSE ParentToken(t)

\* Mutant: back-tracking leaves the CLI stack alone.
StayInList == UNCHANGED <<mode, prompt>>

LeaveList ==
  IF NodeUpdate(cmd.climb) THEN MoveTo(PopNode(mode)) ELSE UNCHANGED <<mode, prompt>>

\* Mutant: the walk forgets to move to the parent token.
ClimbNowhere == cmd' = [cmd EXCEPT !.child = cmd.climb]

ClimbOn == cmd' = [cmd EXCEPT !.child = cmd.climb, !.climb = NextAncestor(cmd.climb)]

\* Nothing is tried above a list key, which would match any word.
PassKey ==
  /\ pc = "climb" /\ cmd.climb # NoToken
  /\ cmd.child \notin Roots /\ IsString(cmd.child)
  /\ LeaveList
  /\ ClimbOn
  /\ UNCHANGED <<candidate, running, hostname, pc, try>>

RetryAbove ==
  /\ pc = "climb" /\ cmd.climb # NoToken
  /\ cmd.child \notin Roots /\ ~IsString(cmd.child)
  /\ LeaveList
  /\ ClimbOn
  /\ try' = TryFrom(cmd.climb)
  /\ pc' = "words"
  /\ UNCHANGED <<candidate, running, hostname>>

\* Mutant: the first error is reported, but the CLI stack is not restored.
GiveUpAbove ==
  /\ pc = "climb"
  /\ cmd.climb = NoToken \/ cmd.child \in Roots
  /\ Return
  /\ UNCHANGED session

\* The root was tried, or there is nothing above the current node: restore the
\* CLI stack and report the first error.
GiveUp ==
  /\ pc = "climb"
  /\ cmd.climb = NoToken \/ cmd.child \in Roots
  /\ ModeSet(cmd.orig)
  /\ Return
  /\ UNCHANGED <<running, hostname>>
-----------------------------------------------------------------------------
(***************************************************************************)
(* Session::edit_candidate.  The schema nodes on the path to the target are *)
(* visited from the root; as many lists as the CLI stack is long are        *)
(* skipped, with all that is above them; each list after those takes its    *)
(* keys from the arguments.                                                 *)
(***************************************************************************)

Target == try.curr[1]
Lists == ListPath[Target]
\* Mutant: the keys of the lists of the CLI stack are looked for in the arguments.
SkipNone == 0

Skip == Len(mode.nodes)

\* Keys that list_keys() takes off the arguments below the skipped lists.
KeysTaken ==
  IF Skip > Len(Lists) THEN 0
  ELSE KeyDepth[Target] - (IF Skip = 0 THEN 0 ELSE KeyDepth[Lists[Skip]])

TakesValue == SKind[Target] \in {"leaf", "empty-leaf", "leaf-list"}

\* No unwrap fails and "assert_eq!(args.len(), 0)" holds; the program panics
\* otherwise, which no action models (see NoPanic).
EditFits ==
  /\ mode.config /\ candidate.some
  /\ Len(try.args) >= KeysTaken
  /\ Len(try.args) <= KeysTaken + (IF TakesValue THEN 1 ELSE 0)

PathKeys == BaseKeys(mode) \o SubSeq(try.args, 1, KeysTaken)
Value == IF Len(try.args) > KeysTaken THEN Last(try.args) ELSE None

\* Mutant: a CLI node holds the first token of its list, before the keys.
PushedWords ==
  [i \in 1..(Len(Lists) - Skip) |->
     LET list == Lists[Skip + i] IN
     [token |-> <<list, 0>>, keys |-> KeysOf(list, PathKeys)]]

\* mode_config_enter, once for each list below the skipped ones.
PushedNodes ==
  [i \in 1..(Len(Lists) - Skip) |->
     LET list == Lists[Skip + i] IN
     [token |-> FullToken(list), keys |-> KeysOf(list, PathKeys)]]

Rejected == Refused(PathKeys, Value)

Editing == pc = "run" /\ Action(try.curr) = "edit"

\* The CLI nodes of a command without "no" are entered before libyang gets to
\* see the path, so they stay entered when it refuses it.
SetRejected ==
  /\ Editing /\ EditFits /\ ~try.negate /\ Rejected
  /\ MoveTo(Configure(mode.nodes \o PushedNodes))
  /\ UNCHANGED <<candidate, running, hostname>>
  /\ Return

SetApplied ==
  /\ Editing /\ EditFits /\ ~try.negate /\ ~Rejected
  /\ MoveTo(Configure(mode.nodes \o PushedNodes))
  /\ candidate' = Some(NewPath(candidate.tree, Target, PathKeys, Value))
  /\ UNCHANGED <<running, hostname>>
  /\ Return

\* Mutant: the entries of the other list entries go as well.
RemovedEverywhere(cfg) == {{e \in cfg : Target \in Ancestors[e.node]}}

RemovedBy(cfg) == Removals(cfg, Target, PathKeys)

Negated ==
  /\ Editing /\ EditFits /\ try.negate
  /\ \E gone \in RemovedBy(candidate.tree) : candidate' = Some(candidate.tree \ gone)
  /\ UNCHANGED <<mode, prompt, running, hostname>>
  /\ Return

-----------------------------------------------------------------------------
(***************************************************************************)
(* The callbacks.                                                           *)
(***************************************************************************)

Calling(callback) == pc = "run" /\ Action(try.curr) = callback

\* Those that unwrap the candidate.
CandidateReader == {"cmd_commit", "cmd_validate", "cmd_show_candidate",
                    "cmd_show_config_changes"}

CmdConfig ==
  /\ Calling("cmd_config")
  /\ ModeSet(Configure(<< >>))
  /\ UNCHANGED <<running, hostname>>
  /\ Return

\* The main loop ends.
CmdExitExec ==
  /\ Calling("cmd_exit_exec")
  /\ pc' = "exited" /\ cmd' = IdleCmd /\ try' = IdleTry
  /\ UNCHANGED session

\* Mutant: the CLI stack survives the end of the configuration mode.
CmdEndOnly ==
  /\ Calling("cmd_end")
  /\ ModeSet([mode EXCEPT !.config = FALSE])
  /\ UNCHANGED <<running, hostname>>
  /\ Return

CmdEnd ==
  /\ Calling("cmd_end")
  /\ ModeSet(Operational)
  /\ UNCHANGED <<running, hostname>>
  /\ Return

\* exit: mode_config_exit, which leaves the candidate alone.
CmdExitConfig ==
  /\ Calling("cmd_exit_config") /\ mode.config
  /\ MoveTo(PopNode(mode))
  /\ UNCHANGED <<candidate, running, hostname>>
  /\ Return

\* Mutant: mode_config_top without update_prompt.
CmdTopSilent ==
  /\ Calling("cmd_top") /\ mode.config
  /\ mode' = Configure(<< >>)
  /\ UNCHANGED <<candidate, running, hostname, prompt>>
  /\ Return

CmdTop ==
  /\ Calling("cmd_top") /\ mode.config
  /\ MoveTo(Configure(<< >>))
  /\ UNCHANGED <<candidate, running, hostname>>
  /\ Return

CmdDiscard ==
  /\ Calling("cmd_discard")
  /\ candidate' = Some(running)
  /\ UNCHANGED <<mode, running, hostname, prompt>>
  /\ Return

\* Mutant: a commit does not look at the host name again.
CmdCommitSilent ==
  /\ Calling("cmd_commit") /\ candidate.some
  /\ \/ UNCHANGED session
     \/ /\ running' = candidate.tree
        /\ UNCHANGED <<mode, candidate, hostname, prompt>>
  /\ Return

\* candidate_commit: the configuration is not valid, or the call to the daemon
\* fails, and nothing changes; or the daemon has committed it.
CmdCommit ==
  /\ Calling("cmd_commit") /\ candidate.some
  /\ \/ UNCHANGED session
     \/ /\ running' = candidate.tree
        /\ hostname' = HostnameOf(candidate.tree)
        /\ prompt' = PromptOf(HostnameOf(candidate.tree), mode)
        /\ UNCHANGED <<mode, candidate>>
  /\ Return

\* "validate", "show candidate" and "show changes" read the candidate.
CmdReadCandidate ==
  /\ \E callback \in CandidateReader \ {"cmd_commit"} : Calling(callback)
  /\ candidate.some
  /\ UNCHANGED session
  /\ Return

CmdPrint ==
  /\ \E callback \in {"cmd_list", "cmd_pwd", "cmd_show_running", "cmd_show"} : Calling(callback)
  /\ UNCHANGED session
  /\ Return

-----------------------------------------------------------------------------
\* Session::new and main: the running configuration is fetched once.
Init ==
  /\ running \in InitialConfig
  /\ mode = Operational
  /\ candidate = NoCandidate
  /\ hostname = HostnameOf(running)
  /\ prompt = PromptOf(hostname, mode)
  /\ pc = "ready"
  /\ cmd = IdleCmd
  /\ try = IdleTry

Parse == \/ MatchWord \/ WordUnresolved \/ CommandFound \/ CommandIncomplete
         \/ PassKey \/ RetryAbove \/ GiveUp

Edit == SetRejected \/ SetApplied \/ Negated

Call == \/ CmdConfig \/ CmdExitExec \/ CmdEnd \/ CmdExitConfig \/ CmdTop \/ CmdDiscard
        \/ CmdCommit \/ CmdReadCandidate \/ CmdPrint

\* What the program does by itself once a line is entered.
Step == Parse \/ Edit \/ Call

\* Control-C or control-D instead of a line: the main loop ends.
Interrupt ==
  /\ pc = "ready"
  /\ pc' = "exited"
  /\ UNCHANGED <<session, cmd, try>>

\* After that, or after "exit", the process is gone.
Exited == pc = "exited" /\ UNCHANGED vars

Next == (\E line \in Lines : Enter(line)) \/ Interrupt \/ Step \/ Exited

\* The parser and the callbacks run on the thread that read the line: a command
\* that was entered keeps going.  Nobody has to enter one.
Spec == Init /\ [][Next]_vars /\ WF_vars(Step)
-----------------------------------------------------------------------------
(***************************************************************************)
(* Properties.                                                              *)
(***************************************************************************)

AnyToken == Token \cup Roots \cup {NoToken}
ErrorKind == {"none", "no-match", "ambiguous", "incomplete"}
CmdLocals == [line : Seq(Word), orig : CommandMode, error : ErrorKind,
              climb : AnyToken, child : AnyToken]
TryLocals == [start : AnyToken, curr : AnyToken, next : Nat \ {0}, negate : BOOLEAN,
              args : Seq(Word)]

SessionTypeOK ==
  /\ mode \in CommandMode /\ (~mode.config => mode.nodes = << >>)
  /\ candidate \in [some : BOOLEAN, tree : Config]
  /\ running \in Config
  /\ hostname \in Host
  /\ prompt \in Prompt

ParserTypeOK ==
  /\ pc \in {"ready", "words", "climb", "run", "exited"}
  /\ cmd \in CmdLocals /\ (~cmd.orig.config => cmd.orig.nodes = << >>)
  /\ try \in TryLocals

\* The state has the types of the code's structures; a session that is not in
\* configuration mode has no CLI stack (CommandMode::Operational has none), and
\* every CLI node carries the keys of all the lists down to it.
TypeOK == SessionTypeOK /\ ParserTypeOK

\* CLI node i of a stack is the last token of the i-th list on the way to the
\* current entry, with the keys of all the lists down to it, which extend those
\* of node i - 1; a stack of such nodes is a path of the schema.
NodeFits(nodes, i) ==
  LET list == nodes[i].token[1] IN
  /\ SKind[list] = "list" /\ nodes[i].token = FullToken(list)
  /\ Len(ListPath[list]) = i
  /\ \A j \in 1..i : ListPath[list][j] = nodes[j].token[1]
  /\ Len(nodes[i].keys) = KeyDepth[list]
  /\ i > 1 => KeysOf(nodes[i - 1].token[1], nodes[i].keys) = nodes[i - 1].keys

IsPath(nodes) == \A i \in DOMAIN nodes : NodeFits(nodes, i)

\* The CLI stack is always such a path, although edit_candidate pushes several
\* nodes at once, "exit" and back-tracking pop them one by one and a failed
\* search puts the old ones back.
StackIsPath == IsPath(mode.nodes) /\ IsPath(cmd.orig.nodes)

\* The CLI stack holds exactly the lists around schema node n.
StackAround(n) ==
  /\ Len(ListPath[n]) = Len(mode.nodes)
  /\ \A i \in DOMAIN mode.nodes : ListPath[n][i] = mode.nodes[i].token[1]

\* Arguments between the root and a token of the schema.
ArgDepth(t) == IF t[1] \in SNode THEN KeyDepth[SParent[t[1]]] + t[2] ELSE 0

\* Whenever the parser tries a command at some level, the CLI stack holds
\* exactly the lists around that level, the token reached is below that level,
\* and one argument was collected for each argument token passed: this is what
\* edit_candidate relies on when it counts the lists to skip and pops the keys
\* of the others.
ScopeMatchesStack ==
  pc \in {"words", "run"} /\ try.curr \in YangToken \cup {YangRoot} =>
    /\ mode.config
    /\ try.start \in YangToken \cup {YangRoot}
    /\ StackAround(try.start[1])
    /\ try.start[1] = Top \/ try.start[1] \in Ancestors[try.curr[1]]
    /\ Len(try.args) = ArgDepth(try.curr) - KeyDepth[try.start[1]]

\* Back-tracking pops the CLI stack in step with its walk up the tree: at every
\* token it visits, the stack holds the lists around that token, and the walk
\* ends at the root with an empty one.  So mode_config_exit is never called
\* without a CLI node to leave.
WalkMatchesStack ==
  pc \in {"words", "climb"} =>
    /\ mode.config = cmd.orig.config
    /\ ~mode.config => cmd.child = ExecRoot /\ cmd.climb = ExecRoot
    /\ mode.config =>
         /\ cmd.child \in YangToken \cup {YangRoot}
         /\ \/ cmd.climb = cmd.child /\ cmd.child = WdToken(mode)
            \/ cmd.climb = NextAncestor(cmd.child)
         /\ IF cmd.climb = NoToken THEN mode.nodes = << >>
            ELSE StackAround(cmd.climb[1])

\* The commands that are found are those of the mode: the tokens of the exec
\* tree in operational mode, the others in configuration mode.
TokenOfMode ==
  /\ pc = "run" => try.curr \in Token
  /\ pc \in {"words", "run"} =>
    \/ ~mode.config /\ try.curr = ExecRoot /\ try.start = ExecRoot
    \/ mode.config /\ try.curr \in YangToken \cup {YangRoot}
    \/ /\ try.curr \in InternalToken
       /\ mode.config <=> Internal[try.curr[1]].tree # "exec"

\* There is a candidate whenever a command may need it.
CandidateInConfigure == mode.config => candidate.some

\* No line makes the session panic: edit_candidate finds all the list keys it
\* takes and no argument left over (its assertion), and the callbacks find the
\* mode and the candidate they unwrap.
NoPanic ==
  /\ Editing => EditFits
  /\ (\E callback \in {"cmd_exit_config", "cmd_top"} : Calling(callback)) => mode.config
  /\ (\E callback \in CandidateReader : Calling(callback)) => candidate.some

\* Looking a command up, back-tracking included, never leaves the
\* configuration mode (mode_config_exit on an empty stack would, and the
\* mode_set that restores the stack would then replace the candidate), and a
\* line that no level knows leaves the session as it was.
LookupStep ==
  /\ pc \in {"words", "climb"} => candidate' = candidate /\ mode'.config = mode.config
  /\ pc = "climb" /\ pc' = "ready" => mode' = cmd.orig

LookupKeepsSession == [][LookupStep]_vars

\* The prompt shows the node at which the next line will be looked up and the
\* host name of the running configuration: every path through mode_set,
\* mode_config_enter, _exit and _top and through a commit refreshes it.
PromptCurrent ==
  pc \in {"ready", "exited"} => prompt = PromptOf(HostnameOf(running), mode)

\* The entries a CLI stack stands in exist in the candidate.
StackExists(nodes) ==
  \A i \in DOMAIN nodes : At(candidate.tree, nodes[i].token[1], nodes[i].keys) # {}

\* A command leaves the CLI in an entry that is not in the candidate only when
\* it started in such an entry, or when libyang refused an edit whose CLI nodes
\* were already entered: no "no", "discard", "commit" or back-tracking removes
\* an entry from under the stack.
OnlyRejectionDangles ==
  [][pc' = "ready" /\ StackExists(cmd.orig.nodes) /\ ~StackExists(mode.nodes)' => SetRejected]_vars

\* A configuration command changes only what lies in the entry of the level at
\* which it was resolved, or creates that entry.
EditsStayInScope ==
  [][Editing /\ mode.config /\ mode.nodes # << >> =>
       LET list == Last(mode.nodes).token[1]
           keys == BaseKeys(mode)
           changed == (candidate'.tree \ candidate.tree) \cup (candidate.tree \ candidate'.tree) IN
       \A e \in changed :
         \/ e \in Below(changed, list, keys)
         \/ e \in PathEntries(list, keys)]_vars

\* Every line that is entered is answered: back-tracking ends, whatever the line.
Answered == pc \notin {"ready", "exited"} ~> pc \in {"ready", "exited"}
=============================================================================
