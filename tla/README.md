# A verification project for holo-cli

holo-cli is the interactive command line of the Holo routing daemon. It turns the YANG modules of
the daemon into a tree of commands, reads lines, edits a candidate configuration in memory and
commits it over gRPC. This directory holds TLA+ models of it, the TLC configurations that check
them on small instances, and proofs, checked by TLAPS, of what holds for every schema, every set
of lines and any number of sessions. Paths below are relative to the repository; `parser.rs`
stands for `src/parser.rs`.

## 1. The system

| Component | Source | State | Operations | Modules |
|---|---|---|---|---|
| Command tree | `token.rs`, `token_yang.rs` | an arena of tokens under four roots: kind, name, argument, action, `node_update` | built once, then read: children, parent, ancestors, `matches` | `CommandTree` |
| Internal commands | `internal_commands.xml`, `token_xml.rs` | the tokens of the trees exec, config and config-default | loaded once | `InternalCommands`, `ShowTree` |
| Parser | `parser.rs` | locals of a call; it moves the CLI stack of the session | `parse_command`, `parse_command_try`, `get_tokens` | `CommandTree` (lookup), `Cli` (steps), `Shell` (meaning) |
| Session | `session.rs` | mode and CLI stack, candidate, copy of the running configuration, host name, prompt | `mode_set`, `mode_config_enter/exit/top`, `edit_candidate`, `candidate_discard/validate/commit` | `Configuration`, `Cli`, `Shell`, `Northbound` |
| Command callbacks | `internal_commands.rs` | none of their own | `cmd_config`, `cmd_end`, `cmd_exit_*`, `cmd_top`, `cmd_commit`, ... | `Cli`, `Shell` |
| Show and clear commands | `internal_commands.rs` | none; a pager is a child process | fetch, lay out, page; execute | `ShowCommands`, `ShowTree`, `Show`, `ShowSchema` |
| Main loop | `main.rs` | the `Cli` behind a mutex | `enter_command`, the read loop, `-c` | `Cli`, `Shell`, `Batch` |
| Configuration file | `main.rs` `read_config_file`, `internal_commands.rs` `cmd_show_config_cmds` | position in the file | lines, then a commit; a file may be a configuration that was printed | `Batch`, `SavedConfig` |
| Northbound client | `grpc.rs` | one connection | Get, Validate, Commit, Execute, Capabilities, GetSchema | `Northbound`, `Show`, `ModuleCache` |
| Module loading and cache | `grpc.rs`, `main.rs` | files in `/usr/local/share/holo-cli/modules`, shared by all processes | start-up, import callback | `ModuleCache` |
| Completion and prompt | `terminal.rs` | shares the `Cli` through the mutex | `complete`, `render_prompt_*` | `Completer` |
| Errors | `error.rs` | none | wording | the kinds of `ParserError` in `Cli` |

**How they interact.** A process first connects, asks the daemon for its modules and has libyang load
them, from the cache directory or through a callback that asks the daemon and writes the cache; then
it fetches the running configuration. From then on one thread reads a line with reedline, which calls
the completer under the mutex; `enter_command` then runs under the same mutex. It calls the parser
with the session and the tree; the parser returns a token, its arguments and a negation; the action
of the token is either an edit of the candidate (`edit_candidate`) or a callback. Callbacks may call
the daemon and block the thread until it answers, and feed a pager and wait for it. Nothing but a
commit or a clear leaves the process, and the configuration comes in only when the session begins.

**What is hard about it.**

* The parser *changes the session while it searches*: looking a command up in the nodes above the
  current one pops the CLI stack on the way (`parser.rs:182-187`), and what it finds is run with
  the stack as the walk left it. The pops, the tokens that mark a list (`node_update`), the string
  tokens of the list keys and the rule that skips what is above a key must agree.
* `edit_candidate` does not know at which level the line was found. It *counts*: as many lists as
  the stack is long are skipped, each list after them pops its keys from the arguments, and
  `assert_eq!(args.len(), 0)` closes. An error in the counting is a panic or an edit elsewhere.
* CLI nodes are entered before libyang has seen the path, so a refused command has effects.
* Four cached pieces of state must follow others: the prompt, the host name, the candidate (which
  exists in configuration mode) and the copy of the running configuration.
* Several sessions configure one daemon. Each computes its difference from a copy that it fetched
  once, and a request may be served after the session gave up on it.
* The module cache is written in place, by any number of processes, which may be killed between
  opening and writing a file, while the daemon may be upgraded; nothing is locked or renamed.
* The trees lead to thirty-six show and clear callbacks through the names of arguments and
  strings that become XPaths; the callbacks unwrap much of what the daemon sends them. Some need two
  RPCs, and the daemon's state moves between them.
* A configuration that was printed is read back through the same CLI stack: where each line lands
  depends on where the lines before it, accepted or refused, have left the session.

**What makes each part correct.** Lookup: at most one token per word, and one that is offered
there. Parser and session: at each attempt the stack is that of the level (`ScopeMatchesStack`), the
walk never pops an empty stack (`WalkMatchesStack`), a line that is not known changes nothing
(`LookupKeepsSession`), and altogether a line means what the innermost level that knows it says
(`ImplementsShell`). Session: no line panics (`NoPanic`), the stack is a path (`StackIsPath`), edits
stay in the entry one stands in (`EditsStayInScope`), the entry exists (`OnlyRejectionDangles`), the
prompt tells the truth (`PromptCurrent`). Sessions and daemon: the copy is accurate as long as the
session was told of every change (`KnownMeansAccurate`), a commit changes what its user edited and nothing else of
others, but for what they have put into an entry it removes (`OthersSurvive`), and what was edited is at
the daemon once it accepts (`CommitTakesEffect`, with the exception that section 6 calls `lost_edit`). Completer: what it suggests is known to the
parser (`SuggestionsParse`), nothing the parser knows is missing (`NothingMissing`), and completing a
word does not change the command (`CompletionKeepsMeaning`). Start-up: the cache never lies
(`CacheTruth`) and heals (`CacheFilled`), the prompt comes with the modules the daemon announced
(`ReadyMatchesDaemon`). Show and clear: what is laid out or executed is what was typed (`ActsAsTyped`),
a panic has one of a few causes in what the daemon sent (`PanicHasCause`), a failure is reported
(`FailureReported`), pager and prompt do not fight for the terminal
(`PagerOwnsTerminal`). Files: a printed configuration that is read back is the same (`FileRestores`).

## 2. The modules

```
CommandTree ---- Configuration ---- Cli ---- CliRefinesShell ---- MC_Cli
     |                 |             |  \          |                 |
     |                 +---- Shell --|---\---------+                 |
     |                 |      |  |   |    CliProofs -- CliRefinementProofs
CommandTreeProofs      |      |  +-- Batch --------- MC_Batch       |
                       |      |        |                |           |
                       |      |    SavedConfig --- MC_SavedConfig   |
                       |      |        |                |           |
                       |      |    SavedConfigProofs    |           |
                       |      |                         |           |
                       |      +--- Completer ------ MC_Completer    |
                       |               |                |           |
                       |        CompleterProofs         |           |
InternalCommands --- MC_Schema -------------------------+-----------+

Northbound ---- MC_Northbound          ModuleCache ---- MC_ModuleCache
     |                                      |
NorthboundProofs                       ModuleCacheProofs

ShowCommands ---- Show ---- ShowSchema ---- MC_Show ---- ShowTree
                                |                           |
                                +-------- ShowProofs -------+
```

### CommandTree: `token.rs`, `token_yang.rs`, and lookup in `parser.rs`

The constants are the schema (`SNode`, parents, kinds, number of keys, names) and the table
`Internal` of the tokens of the XML file. `gen_cmds` makes one word token per schema node and a
chain of string tokens, one per key of a list or one for the value of a leaf; a token is therefore
named `<<node, arguments so far>>` and the arena is given in closed form (`ParentToken`,
`IsString`, `NodeUpdate`, `Action`). Choice and case nodes get no token and are not in `SNode`.
`Ancestors`, `ListPath` and `KeyDepth` are what walking up the schema yields; they are constants
tied to the parents by the assumption `PathAssumption`, which every run evaluates, because a
recursive definition could not be used in the proofs. A word matches a token through the relation
`Abbrev` (name starts with word). `Selected` is the whole of the loop body's choice: the only match
or the first exact one, in order of creation. `Readings` are what a whole line can be read as from a
given level, word by word (`Taking`); `Shell` and `Completer` are built on it.

### InternalCommands: `internal_commands.xml`, `token_xml.rs`

The configuration trees token by token, except the output formats of `show`, and of the exec tree
the commands that change the session; `show ospfv2 interface [detail]` stands there for the show and
clear commands, with the shape they share. All of those are in `ShowTree`.

### Configuration, Cli: `session.rs`, `parser.rs`, `main.rs`, callbacks

A configuration is a set of entries: schema node, keys of all lists down to it, value. libyang is
external: `NewPath`, `Removals`, `Refused`, `At` say what the calls to it do. Values and keys in
`BadWord` are refused. Default nodes that validation adds are left out.

| Model | Code |
|---|---|
| `mode` | `Session.mode`; `nodes` is the stack of `CommandNode`, `keys` its `data_path` |
| `candidate`, `running`, `hostname`, `prompt` | the fields of `Session` |
| `pc`, `cmd`, `try` | where the thread is; the locals of `parse_command` and of one `parse_command_try` |
| `Enter`, `Interrupt` | a line is read and `parse_command` begins; control-C or control-D ends the main loop |
| `MatchWord`, `WordUnresolved`, `CommandFound`, `CommandIncomplete` | loop body and end of `parse_command_try` |
| `PassKey`, `RetryAbove`, `GiveUp` | an iteration of the back-tracking loop that tries nothing, one that tries the line, and the restore at its end |
| `SetApplied`, `SetRejected`, `Negated` | `edit_candidate` |
| `CmdConfig`, `CmdEnd`, `CmdExitConfig`, `CmdTop`, `CmdDiscard`, `CmdCommit`, ... | the callbacks |

A commit is one step here that either changes nothing (not valid, refused, connection lost) or
makes the candidate the running copy; `Northbound` shows what happens at the daemon. A panic has no
action: `NoPanic` says that none is reached, and the runs check for deadlock besides. The candidate
that `exit` leaves behind (section 6) is in the model as in the code.

### Shell: what the command line promises

The abstract specification has no parser state: one step reads a line and one answers it. `Levels` are
the schema nodes around the current entry, `Readings` (of `CommandTree`) what a line means at a level,
`Meant` the reading at the innermost level that knows it; `EditAt` applies it to the entry of that level,
whose stack is computed from the keys (`StackOf`), not pushed. `CliRefinesShell` maps `Cli` to it: while
a line is being processed the mode of `Shell` is the one in which the line was entered, and the last step
of the line is the answer. Everything the walk does to the stack meanwhile is hidden.

### Batch: `--file` and `-c`

`read_config_file` over the same meaning of a line (`Shell!Answer`), with the mode change before
and the commit after, or the loop over the arguments of `-c` (`ArgCommands`). What `exit` returns is
ignored, as in the code.

### SavedConfig: a configuration that is printed and read back

`Printed` is the line `cmd_show_config_cmds` writes for an entry: the names from the nearest list
around it down to it, its own keys, its value. `Files` are the orders in which a depth-first traversal
may write the lines, without fixing one, so the answer does not depend on how libyang sorts siblings.
`SavedLine` feeds such a file to `Batch` line by line. What is printed is a `DataTree`: every entry has
the keys of its lists, the entries of its path are there, and a leaf has one value. `NamesDiffer` and
`NoneNearer` say when the words of a line can only mean what they were printed for: siblings have
different names, none of them is `no`, and no level that the CLI may stand in, further in than the one a
line starts at, knows its first word. `MC_SavedConfig` asserts both of the schema of the run.

### Completer: `terminal.rs`

A line on its way to `Shell`: it is typed word by word (`TypeWord`, `TypeBlank`), completed
(`Accept`), dropped (`Clear`) or submitted. `Suggestions` is `CliCompleter::complete`: the parser is
tried on the unfinished line at the current node only, and its result - a command, an incomplete
one, an ambiguous word - decides what is suggested; `WithWord` is the span that is replaced.
`ControlZ` enters `end` as a host command. The editor, reedline, is external; that it keeps the
typed line over a host command is taken from how it is used. So mode and node may change under a
line that is half typed. The cursor stays at the end of the line. Two quirks are in the model and
outside the properties: after `no` internal commands are suggested too, which cannot follow it
(`AfterNo`), and an ambiguous word that is followed by a blank is suggested again.

### Northbound: several sessions and the daemon

A configuration is a tree of list entries and leaves: a node is in it only with the entries it is in
(`Config`, `Above`). `running` and `candidate` are such trees per session; `requests` and `answer` are
what is under way; `phase` is down, fetching, idle or committing (the thread blocks). An edit brings the
entries a node is in along, or takes what is in it (`EditedTree`). The request is the `Diff` of the two
copies. The daemon (`ServeGet`, `DaemonCommits`, `DaemonRefuses`) and the connection (`Break`) are external.
An entry that a difference removes is removed with all that the daemon has in it (`Apply`), also what the
session has never seen; a difference that no configuration comes of is not taken. `Break` ends the call
with an error whether the request was lost, is still going to be served, or was served already; `Exit`
kills a session at any point, in the middle of a commit, too. History serves the properties: `edited`, the
nodes the user touched since the candidate was last in step with the copy, also if their value stayed the
same; `edits`, a copy of that in each request, which outlives the session; and `known`, that every change
of the daemon since the session's last exchange was one it was told of. No step depends on any of them.

### ModuleCache: `grpc.rs`, from the start of a process to its prompt

| Model | Code |
|---|---|
| `phase`, `wanted` | where `main` is; the modules `load_modules` still has to load, with what they import in front |
| `file` | the cache directory; a file is absent, whole or *broken*: opened but not written, cut, or mixed from two writers |
| `Connect`, `MakeDirectory`, `Capabilities` | the steps that end the process when they fail |
| `AlreadyLoaded`, `FromFile`, `Ask` | libyang's part of a load: the context, the search directory, the callback (external) |
| `GetSchema`, `OpenFile`, `WriteFile` and their failures | the callback |
| `End`, `Upgrade` | a process ends or is killed at any step; the daemon is replaced by its next release |

The daemon serves one revision of each unit. A published module never changes under its revision; a
module of holo may with every release, which is why the code does not cache it (`MayCache`). `since`
and `spoilt` are history variables of the properties; nothing the code does depends on them.

### ShowCommands, ShowTree, Show, ShowSchema: the show and clear commands

`ShowCommands` has one operator per callback: whether its arguments fit, the protocol and instance it
is about, the steps of its path with list, key leaf and key, what it requests for them (`request`: all
protocols, its one instance, or just the rows), the container it fetches first, the leaves it unwraps and
the layout. `ShowTree` has the lines of the XML with callback, arguments and what their
help says they are about (`about`); this is the independent statement `ActsAsTyped` compares with. A
table has a row for each entry of the innermost list of its columns, and `about` names that entry: `show
ospfv2 virtual-link` ("Virtual link information") is about the neighbors of virtual links and `show mpls-ldp
peer` about the adjacencies of peers, so that a link or a peer without any counts as rightly left out.
`Show` takes one line from the prompt to the next: arguments, first RPC, second RPC, layout, pager.
`ShowSchema` says where a daemon has the entries the help speaks of: per protocol and kind, the lists on
the way and the key leaf of each. It is external, since the YANG modules are the daemon's, and a table of
its own, not read off `ShowCommands`: a callback whose path, leaf or key is wrong does not reach the place
its line is about. An entry is of a kind exactly when it is at that place (`FollowsSchema`).

The daemon's tree may change at any point (`DaemonMoves`), so the answers of one command may be of two
trees, `early` and `seen`; any RPC may fail; the pager may not start, and the user may leave it at any
time. Panics are in the model (`First`, `FirstFails`, `LayoutFails`, arguments that reach unreachable
code). `Answer` is what the daemon sends for the request of a command. The tables and `show route` look
whether there is an answer (`internal_commands.rs:206`, 2610); the text commands unwrap a search in it
(975, 1138, 1482, 1584, 1712, 1828, 2226, 2272), which libyang may refuse when it is empty: for an
unknown neighbor, without BGP, with nothing but routing tables (`MayPanic`). Also unwrapped are: the
container of the instance `main` that the host names and the attribute sets are looked up in (873, 1402,
2134), the `attributes` of each set (2139) and the RPC for them (2182); the `attr-index` of a route
(2228) and its attribute set (2229); columns that are parsed (180); the time a neighbor was last
established, when it never was. `PanicHasCause` says that these, each in a single answer, a failed RPC or
a quote in a word are all there is: it does not matter what the daemon does between the two RPCs of a
command, but for the routes of a BGP neighbor. A pager that is left early makes the write fail, and its
process is not waited for.

## 3. The runs

| Run | Question | Instance |
|---|---|---|
| `interface` | do parser, stack and candidate stay in step over nested lists? | 24 lines: list in a presence container in a list, abbreviations, ambiguous and unknown words, refused key and value, negation of container, list, leaf |
| `route` | the same with two keys, a leaf-list, commits and the host name | 21 lines, commits that succeed and fail |
| `answers` | is every line answered, and as `Shell` says? | 15 lines, one or more for each way through the parser and each callback, known at some levels and not at others |
| `restore` | does a printed configuration come back when it is read? | 4 configurations of 5 to 7 entries in every depth-first order, with refused keys and values, over 2 running ones |
| `completion` | does the completer suggest what the parser knows, and all of it? | 4 lines and 4 words that are typed: an abbreviation of two names, a word that is the prefix of others, `no`; lines of up to 3 words |
| `sessions` | several sessions, one daemon: does a commit change what was edited, all of it and nothing else? | 2 sessions, a list entry and a leaf in it, 1 request that is served after its session gave up or is gone |
| `start` | does the cache tell the truth, heal, and let every start end? | 2 processes, 3 units (a module of holo, its submodule, a published module both load), 1 upgrade that changes two of the texts |
| `show` | do show and clear commands act as typed and survive? | all lines of the trees with three words (a name, an address, one with a quote), 4 trees of the daemon |
| `show_filter`, `show_as`, `lost_edit`, `file_end` | the disagreements of section 6 | as above |

The schema of `MC_Schema` has every kind of node, a list below a list, a list with two keys, a leaf that
shares a prefix with internal commands, and a leaf at the root. **Why this is enough:** the code treats a
schema node by its kind and number of keys only, and the walk and the counting are loops over lists; two
nested lists give stacks of length 0, 1 and 2, commands that push 0, 1 or 2 nodes, and walks that pop 0,
1 or 2. Deeper schemas are covered by the proofs. Two key values make two entries of a list, which is
what an edit in the wrong entry needs. `MaxWords` is 3, enough for `no`, a container and what is in it.
The lines of one run are a set from which the session takes any sequence of any length; nothing is
bounded but that set. In `Northbound`, `MaxOrphans` bounds the requests that outlive their call; one is
enough to be served late, between others. Each node is set or not, so an entry and a leaf in it make
edits that overlap, edits that do not, and an entry that one session removes while the other puts the
leaf into it. The sessions are interchangeable, hence the symmetry. In `ModuleCache`, `MaxRelease` is 1:
one upgrade makes old files, new announcements and processes from before; two processes are the least
that can spoil each other's writes, and the proof is for any number. The daemon of `MC_Show` has every
place of `ShowSchema` filled, with two entries where a command filters, so that a wrong filter shows too
much, nothing or another entry; its four trees differ in everything a command counts on: one has all, one
lacks protocols, instances of leaves and attribute sets, one has BGP neighbors and no routes yet, one
nothing but a routing table. The saved configurations have each kind of line before and after a deeper
list, and a refused line at each level.

**Fairness.** `Cli!Spec` has weak fairness of `Step`, what the program does once a line is read: the
parser, the edit and the callbacks run on the thread that read the line, and nothing else runs
meanwhile. A callback that waits for the daemon is a step that ends, so `Answered` assumes that
calls end; the code sets no deadline for them. Entering a line is not fair: nobody has to.
`ModuleCache` has weak fairness of each process's start-up, with an RPC that is answered or fails: the
program polls nothing there and waits for no other process. `Show` has weak fairness of what the program
does (`Proceed`, stated on `phase` because the data of the daemon does not matter to whether a step is
possible) and of `LeavePager`: the pager waits for the user, who has to leave it for the prompt to come
back. `Shell`, `Batch`, `SavedConfig`, `Completer` and `Northbound` state safety only.

## 4. What is proved

All of it for every value of the constants that satisfies the assumptions: any depth of nesting, any
number of keys, any lines, any number of sessions, processes and modules, any daemon. The assumptions are

* in `CommandTree` and `Configuration`: a schema is a forest whose lists have keys; the trees of the XML
  file are disjoint; callbacks that need one mode are in the trees of that mode; `discard` is a command of
  the root alone; a name abbreviates itself and what abbreviates an abbreviation abbreviates the name, as
  prefixes do; no two tokens are created at once (they are indices of an arena), and those of the schema
  are created before those of the XML file (`token.rs:67`);
* in `SavedConfig`, that the depth of a node is one more than its parent's, that what is printed
  is a data tree, and that an entry without a value is never refused for it;
* in `Completer`, that `end`, which control-Z enters, is a word;
* in `Northbound`, that `Unset` is not a value and that entries are nested (`TreeAssumption`: the entries
  around an entry are around what is in it); in `ModuleCache` and `Show`, that the tables have the right
  shape and the sentinels are none of their values.

Three theorems about the show commands have hypotheses of their own, given below; the run `show` is an
instance of all of them. The one about saved configurations has `NamesDiffer` and `NoneNearer`, of which
the run `restore` is an instance.

`CommandTreeProofs` has the facts about the arena: ancestors and their lists are ordered by depth,
the parent of a token is a token or a root, a token at which a walk arrives has the lists around it
that its node has. The depth of a schema node carries the induction (`TreeInduction`, by least
counterexample). `LookupFinds`: a selected token is a child of the current one or an internal one.
`Readings` is a recursive function over the length of the line, and the facts about it (`ReadingsStep`,
one word more) come from its equation.

`CliProofs` proves `IInv == TypeOK /\ StackIsPath /\ ScopeMatchesStack /\ WalkMatchesStack /\
TokenOfMode /\ CandidateInConfigure` inductive, one lemma per action or group of actions.
The conjuncts need each other. That `edit_candidate` takes exactly the arguments
that are there (`NoPanic`) follows from `ScopeMatchesStack`: the arguments are those of the tokens
between the level and the command, and the stack is as long as the level has lists. That holds when
a level is tried because of `WalkMatchesStack`: the walk pops where it passes the first token of a
list, so at each token the stack has the lists around it. That in turn starts from the current
node, where it is `StackIsPath`; and pushing keeps `StackIsPath` because of `ScopeMatchesStack`.
`TokenOfMode` and `CandidateInConfigure` say which callbacks a mode can reach and that the candidate
they unwrap is there.

| Theorem | States |
|---|---|
| `TypeInvariant`, `StackInvariant`, `ScopeInvariant`, `WalkInvariant` | the invariants of that name |
| `PanicFreedom` | no sequence of lines makes `edit_candidate` or a callback of the session commands panic (those of show and clear may: `PanicsHaveCauses`) |
| `LookupSafety` | a lookup keeps mode and candidate, and a line that no level knows keeps the stack |

It also proves `PromptCurrent` and `EditsStayInScope`. The prompt follows the mode at every
step, not only between lines (`PromptFollows`), which is an invariant by itself. That an edit stays in
scope rests on `IInv`: the list of the innermost CLI node is around the target, and the path of the
target begins with the keys of that node (`LevelOfEdit`); what `new_path` creates lies on that path and
what `no` removes lies below it (`NewPathInLevel`, `RemovalInLevel`), because the ancestors of a node
are a chain (`AncestorChain`, in `CommandTreeProofs`).

It proves `OnlyRejectionDangles` from `LInv`, which is `IInv` and three facts about the line
that is being looked up: the walk has only popped nodes of the stack it began with (`StackOfLine`), so the
entries of what is left exist when those of that stack did; a command is looked up from the token of a
level and is never that token (`FoundBelow`), so the target of an edit is none of the lists of the stack
(`StackAroundEdit`) and "no" removes only what is below; and the commands of the root of the
configuration are found there only (`FoundAtRoot`), so `discard` meets an empty stack. That two nodes
that are ancestors of one another are one (`SameNode`) is by depth.

`CliRefinementProofs` proves `ImplementsShell`: parser, walk, pops, pushes and edits together do what one
step of `Shell` does, which has none of them. The invariant is `RInv`, made of those above and of
`SearchInv`, which says at every step of a lookup how much of the search is behind it: the line is the one
that was entered (`LineKept`), the attempt has read the words before the current one as `Readings` reads
them (`AttemptReads`), the level that is tried is one of `Levels` (`LevelTried`), and none of the levels
that were tried before knows the line (`Searched`). So what is found is what `Shell` takes the line to mean
(`FoundIsMeant`), and what is given up is known nowhere (`GivenUp`). For the answer, the mode that the pops
have left is the one of the level (`ModeOfLevel`); the path `edit_candidate` puts together is that of the
target (`PathOfEdit`), and the nodes it pushes complete the stack `Shell` computes from the keys
(`StackOfEdit`). Every other step is a stutter (`SearchStutters`).

`CompleterProofs` proves the three properties of the completer. The invariant `PromptInv` is only that
words are typed and that the mode has a node to complete at; the work is in the lookup. A suggestion is
the name of a token that is offered, and a name selects a token (`NameSelects`), whose reading goes one
word further (`OneMoreWord`); the name of the token a word selects selects that token and no other
(`NameSelectsSame`), which needs that abbreviations compose; and past the first word a reading has left
its level (`WordsLead`), so that what is suggested there is not filtered by what only a level has.

`SavedConfigProofs` proves `FileRestores`, under `NamesDiffer` and `NoneNearer`, for every data tree and
every depth-first order of its lines. The argument has three parts.

* *A printed line has one reading where it was meant.* Along the path from the outer list to the entry
  each name selects the token of the next node (`NamesRead`, by the depth; that an internal
  token of the same name does not get in the way is the order of creation), and the words after it select
  the argument tokens one by one (`ArgumentsRead`). So `Readings` of the line from that level is that
  entry's command and nothing else (`PrintedReads`).
* *It is read there wherever the CLI stands.* The entries of a path come before what is below them
  (`PathFirst`), and the line before leaves the CLI in its own list entry or the one around it, also when
  libyang refused it (`StandsAtEntry`). Because the order is depth-first, what the two lines have in common
  is still on the stack (`LineBefore`, `BaseOfLine`), and the levels further in do not know the first word
  (`FirstWordUnknown`), so the innermost level that knows the line is the one that was meant (`LineMeans`).
  Its keys with the arguments of the line are those of the entry (`PathOfLine`).
* *The entries restored so far grow by that one.* `RestoreInv` says that some depth-first order of the
  saved entries is being read, that a number of its lines have been, that the candidate is the running
  configuration with the accepted ones of those (`Restored`) and that the stack is where the last line left
  it. A line that is accepted adds its entry and, as the path of an entry is accepted with it, nothing else
  (`LineRestores`); a refused one changes nothing (`LineRefused`). At the commit all lines have been read.

`NorthboundProofs` proves `KnownMeansAccurate`, `OthersSurvive`, `TypeOK` and `CommitTakesEffect`, for any
tree of entries. The
copy is accurate between two lines because of what holds at the stages of an exchange
(`FetchAccurate`, `CommitAccurate`): it is accurate until the daemon says yes, and then the
*candidate* is, because a request under way is still the difference of the session's copies
(`RequestCurrent`) and applying the difference of two configurations to the one gives the other
(`ApplyDiff`). Where the candidate differs from the copy its user has edited it (`CandidateFromCopy`), so
a request names only nodes of its `edits`, also when the session that sent it has edited on or is gone
(`RequestOfUser`). `OthersSurvive` follows, for what is removed besides is in an entry of the difference.
`CommitTakesEffect` does not: an edited node that is as in the copy is in no difference, and the daemon has
it only if nobody changed it meanwhile, which is the exception the property states.

`ModuleCacheProofs` proves `TypeOK`, `CacheTruth` and `ReadyMatchesDaemon` for any number of processes
and releases. The cache tells the truth because a text is only ever written under the path of the load
it answers, which it fits, and because a file that two processes wrote at once does not parse. A process
in the prompt has what was announced because of where each announced module is on the way: still wanted,
or in the context; and every text in a context or under way fits the release it was taken from.
`CacheHeals` adds that the cache has been filled: a text enters a context from a file, which is whole
then, or from the daemon, and then its file was written or has failed to be; from there on only another
process can take the file away, which is the history `spoilt` (`FilledInv`, `Accounted`).

`ShowProofs` proves `TypeOK`, `FailureReported` and `PagerOwnsTerminal` for any lines, trees and data,
from an invariant that says for each phase what has gone wrong so far and whether a pager runs.
`ArgumentsFit` and `PanicHasCause` are about the lines of the XML file, so they are proved under
`OfferedByTrees`, that every line is one of `ShowTree`, with any words where the tree takes any word. What
the words of a line can be follows from how its arguments are put together (`Gives`, `Allows`), group by
group, and with it that the callback knows them (`Fitting`) and that each step of its path compares the
key leaf with a word of the line or a name that is built in (`Sound`). A panic in the layout then needs an
answer that is empty or lacks a leaf, an attribute set that is not known, or a quote; and one in the first
RPC an answer without the container, whatever the second would have been (`CauseFirst`, `CauseLayout`).
Between the two the daemon may change as it likes (`CauseKept`): nothing a panic depends on is read from
the tree as it is now. `PanicHasCause` also needs `NoneBroken`: no line looks OSPF neighbors up by an id,
for that command panics however well it is served (`show_filter` in section 6), and the family that is
filled in when none was typed holds no quote.

`ActsAsTyped` compares what a command lays out with what its help says, so its proof goes through every
group of lines: the callback's path leads to the place that `ShowSchema` has for what the line is about
(`LeadsTo`), it compares the key leaf of that place with the one word that picks entries and nothing on
the other steps, and the line has no other such word (`Speaks`). Then what is found is what is asked for,
in any tree that follows the schema, with any number of entries (`ActsByPlace`; the routes of BGP and of
the RIB, which are also told apart by family, have lemmas of their own). The invariant `ShownInv`
carries this from the fetch to the prompt: what is shown are the entries of the answer that was received
and not of the tree as it is now, and what is sent is what was typed. The hypotheses are `OfferedByTrees`,
`NoneBroken`, `DaemonFollowsSchema`, that no word is the sentinel for a missing one, and `NoneMisled`:
no line asks for the LSAs of AS scope, whose path leads nowhere (`show_as` in section 6).

| Theorem | States |
|---|---|
| `PromptTruth`, `EditScopes` | `PromptCurrent`; `EditsStayInScope` |
| `EntriesStay` | `OnlyRejectionDangles` |
| `Refinement` | `ImplementsShell` |
| `PrintedConfigRestores` | `FileRestores` |
| `SuggestionsAreKnown`, `CompletionIsSafe`, `SuggestionsAreComplete` | `SuggestionsParse`; `CompletionKeepsMeaning`; `NothingMissing` |
| `CopyAccuracy`, `OthersKept`, `CommitsAreApplied` | `KnownMeansAccurate`; `OthersSurvive`; `CommitTakesEffect` |
| `CacheIsTrue`, `ReadyIsCurrent`, `CacheHeals` | `CacheTruth`; `ReadyMatchesDaemon`; `CacheFilled` |
| `FailuresAreReported`, `TerminalIsOwned` | `FailureReported`; `PagerOwnsTerminal` |
| `ArgumentsAreKnown`, `PanicsHaveCauses`, `LinesActAsTyped` | `ArgumentsFit`; `PanicHasCause`; `ActsAsTyped` |

## 5. Only model-checked

* `Answered`, `StartEnds`, `CommandEnds`: liveness under fairness is outside the prover.
* The properties of section 6, which the code violates.

## 6. Where the code and its comments disagree

* **`file_end`** - a configuration file that contains the line `end` panics at the final commit,
  which unwraps the candidate that `end` has dropped (`main.rs:116`, `session.rs:265`). Nothing is
  committed and no error is reported.
* **`lost_edit`** - the copy of the running configuration is fetched once, so that commits of others and
  answers that are lost make it stale for the rest of the session. `show running` shows it, `configure` and
  `discard` start from it (`session.rs:297`, `122`), and `commit` sends the difference from it
  (`grpc.rs:138`), which leaves out an edit that puts a node back to what the copy has. In the run a commit
  is applied and its answer lost; the user undoes the edit and commits again; the daemon accepts an empty
  difference and keeps what was undone, and the session takes its candidate for the running configuration.
  So with `no` of what another session has set since. `CommitTakesEffect` says that this is the only way an
  edit gets lost, and `OthersSurvive` how far a stale session can undo what others did.
* **`show_filter`** - `show ospfv2 neighbor` with a router id panics when there is an interface to
  look below: the key it filters by is written with a second equals sign (`internal_commands.rs:1081`).
* **`show_as`** - `show ospfv2 database as` prints nothing whatever the daemon has: its path begins
  one container too low (`internal_commands.rs:891`).

Met on the way, and in the models as in the code, but contrary to nothing the repository says:

* A line that is ambiguous at the current node is not reported as such when a node above happens to
  know it: in an interface `en` (`enabled` or `end`) leaves configuration mode and drops the candidate
  (`parser.rs:174`).
* `exit` at the root of the configuration leaves the mode without `mode_set`, so the candidate stays
  (`session.rs:144`). `configure` makes a new one, and the commands that read a candidate are not
  those of operational mode; but `--file` commits it.

## 7. Not modelled, and why

* **How the arena is built.** `CommandTree` states the result of `gen_cmds` and of the XML loader in
  closed form. Both are recursive descents that keep no other state; a recursive model could only be
  compared with the closed form by TLC, on the schema of the runs, and could not be proved about.
* **Wording and layout**: columns, indentation and colours of tables and configurations, the text of
  `error.rs`, the prompt's decoration, the history file and key bindings of the editor. They keep no
  state that a command reads.
* **Quoting.** Words are atoms. A value with a space, or one that begins with a comment sign, is printed
  unquoted and cannot be read back (`internal_commands.rs:585`, a TODO at `parser.rs:28`). A leaf that is printed
  after a nested list whose entries have a node of the same name would be taken for that one. YANG
  forbids no such names; `NoneNearer` excludes them, and with it the theorem and the run leave them out.
* **Validation.** The Validate RPC changes nothing in the session or the daemon and returns a message. The
  validation by libyang before it and before a commit (`session.rs:255`, `268`) is given the candidate to
  write to: it may add default nodes and remove nodes whose `when` is false. Neither is modelled; the models
  have no defaults and no conditions, so what a commit sends is in them exactly what was edited.
* **Deadlines.** A commit waits for the daemon without one, and with it the mutex (`grpc.rs:197`). The
  models let every call end in an answer or an error; a daemon that does neither blocks the session.
* **Imports in a circle.** YANG has none; the modules of the run `start` import one another in one direction.
* libyang, tonic, reedline, the pager and holod are external, and modelled by how the code uses them.
