------------------------------- MODULE Show -------------------------------
(***************************************************************************)
(* A show or clear command from the line to the next prompt: the RPCs it   *)
(* waits for, the layout of the answer, and the pager.  The daemon's tree  *)
(* may change between two RPCs of one command, any RPC may fail, and the   *)
(* user may leave the pager before everything was written to it.           *)
(***************************************************************************)
EXTENDS ShowCommands

CONSTANTS
    Offered,    \* the lines of the trees that show or clear: [cmd, args]
    Trees,      \* the states the daemon's tree is seen in
    Data        \* what each of them holds

(* entries: every entry; state: those with operational state; lacks: the   *)
(* pairs of an entry and a leaf it has not; kept: the protocols whose main *)
(* instance has the container fetched first; attributes: the indices of    *)
(* the attribute sets; bare: those of sets that hold no attributes; uses:  *)
(* the index of each route that refers to one.                             *)
ASSUME TreesAssumption ==
    /\ Trees # {} /\ Absent \notin Trees /\ Absent \notin Offered
    /\ \A t \in Trees : Data[t].state \subseteq Data[t].entries

VARIABLES
    tree,       \* the daemon's tree
    paging,     \* Session.use_pager
    phase,      \* where the command is
    line,       \* the last line
    seen,       \* the tree the answer was taken from
    early,      \* the tree the first of two answers was taken from
    shown,      \* the entries laid out
    sent,       \* the input of the RPC that was executed
    outcome,    \* how the last command ended
    pager,      \* the last pager: left until somebody waits for it
    trouble     \* what went wrong during the command

vars == <<tree, paging, phase, line, seen, early, shown, sent, outcome, pager, trouble>>

Phases == {"prompt", "first", "fetch", "layout", "page", "write", "wait", "execute", "returned",
           "panicked"}
command == Callback(line.cmd, line.args)

-----------------------------------------------------------------------------
(* What the daemon answers, and what is found in the answer.               *)
Visible(t, data) == {n \in Data[t].entries : data = "All" \/ n \in Data[t].state}

Matches(step, entry) ==
    /\ entry.list = step.list
    /\ step.key # Absent => entry.leaf = step.leaf /\ entry.key = step.key

(* The entries that the first depth steps of a command lead to.            *)
Found(t, c, depth) ==
    {n \in Visible(t, c.data) :
        /\ n.protocol = c.protocol
        /\ c.instance \in {Absent, n.instance}
        /\ Len(n.path) = depth
        /\ \A i \in 1..depth : Matches(c.steps[i], n.path[i])}

(* show_path evaluates a step below every entry the steps before it led    *)
(* to; the routes of a BGP neighbor are one path.                          *)
Evaluated(t, c) ==
    {i \in DOMAIN c.steps : c.first = "attributes" \/ Found(t, c, i - 1) # {}}

Rows(t, c) == Found(t, c, Len(c.steps))

(* What the daemon sends for the request of a command.  The routing tables *)
(* are not below the protocols.                                            *)
Answer(t, c) ==
    CASE c.request = "protocols" -> {n \in Visible(t, c.data) : n.protocol # "rib"}
      [] c.request = "instance" -> {n \in Visible(t, c.data) :
                                      n.protocol = c.protocol /\ n.instance = c.instance}
      [] c.request = "rows" -> Rows(t, c)

(* The container some commands fetch first has to be there, and in those   *)
(* of the attribute sets the attributes.                                   *)
FirstSuffices(t, c) ==
    /\ c.protocol \in Data[t].kept
    /\ c.first = "attributes" => Data[t].bare = {}

(* A route refers to an attribute set that was not among those fetched.    *)
SetUnknown(t, c) ==
    c.first = "attributes" /\ \E n \in Rows(t, c) : Data[t].uses[n] \notin Data[early].attributes

\* Mutant: what is laid out has to be among what the host names were taken with.
LayoutPanicsOnNames(t, c) == c.first = "hostnames" /\ ~(Rows(t, c) \subseteq Rows(early, c))

(* The layout unwraps an invalid path, a leaf that is missing, and the     *)
(* attribute set of a route.                                               *)
LayoutPanics(t, c) ==
    \/ \E i \in Evaluated(t, c) : InvalidXPath(c.steps[i])
    \/ \E n \in Rows(t, c), leaf \in c.needs : <<n, leaf>> \in Data[t].lacks
    \/ SetUnknown(t, c)

(* find_xpath in an empty answer: the library refuses, which is unwrapped, *)
(* or finds nothing.  The tables and the routes of a routing table look    *)
(* whether there is an answer; the text commands do not.                   *)
MayPanic(t, c) == c.layout = "text" /\ Answer(t, c) = {}

(* A table without rows, or routes none of which were found, print nothing. *)
NothingToPrint(t, c) == c.layout \in {"table", "routes"} /\ Rows(t, c) = {}

-----------------------------------------------------------------------------
Init ==
    /\ tree \in Trees
    /\ paging \in BOOLEAN
    /\ phase = "prompt"
    /\ line = Absent /\ seen = Absent /\ early = Absent
    /\ shown = {} /\ sent = {}
    /\ outcome = "none"
    /\ pager = "none"
    /\ trouble = {}

GoTo(next) == phase' = next /\ outcome' = "none"
Return(how) == phase' = "returned" /\ outcome' = how
Panic == GoTo("panicked")
Fail(what) == trouble' = trouble \cup {what}

(* What a callback does once it knows its arguments.                       *)
Start(c) ==
    CASE c.layout = "printed" -> Return("shown")
      [] c.layout = "local" -> GoTo("page")
      [] c.layout = "execute" -> GoTo("execute")
      [] OTHER -> GoTo("fetch")

(* Arguments that do not fit are refused, or reach unreachable code.       *)
Understand(c) ==
    IF c.fit = "refused" THEN Return("reported")
    ELSE IF c.fit # "ok" THEN Panic
    ELSE IF c.first = "hostnames" THEN GoTo("first")
    ELSE Start(c)

(* The shell calls the callback of a line.  The one that needs attribute   *)
(* sets asks for them before it looks at its arguments.                    *)
Call(l) ==
    LET c == Callback(l.cmd, l.args)
    IN  /\ phase = "prompt"
        /\ line' = l
        /\ IF c.first = "attributes" THEN GoTo("first") ELSE Understand(c)
        /\ trouble' = IF c.fit = "ok" THEN {} ELSE {"arguments"}
        /\ UNCHANGED <<tree, paging, seen, early, shown, sent, pager>>

(* The container some commands fetch first, host names or attribute sets,  *)
(* is unwrapped; so is the error of the RPC for attribute sets.            *)
First ==
    /\ phase = "first"
    /\ early' = tree
    /\ IF ~FirstSuffices(tree, command) THEN Panic
       ELSE IF command.first = "attributes" THEN Understand(command)
            ELSE Start(command)
    /\ UNCHANGED <<tree, paging, line, seen, shown, sent, pager, trouble>>

FirstFails ==
    /\ phase = "first"
    /\ IF command.first = "attributes" THEN Panic ELSE Return("reported")
    /\ Fail("rpc")
    /\ UNCHANGED <<tree, paging, line, seen, early, shown, sent, pager>>

(* fetch_data, or the plain get of the operational state.                  *)
Fetch ==
    /\ phase = "fetch"
    /\ seen' = tree
    /\ GoTo(IF command.layout = "state" THEN "page" ELSE "layout")
    /\ UNCHANGED <<tree, paging, line, early, shown, sent, pager, trouble>>

\* Mutant: the error of the RPC is dropped.
FetchFailsQuiet ==
    /\ phase = "fetch"
    /\ Return("shown")
    /\ Fail("rpc")
    /\ UNCHANGED <<tree, paging, line, seen, early, shown, sent, pager>>

FetchFails ==
    /\ phase = "fetch"
    /\ Return("reported")
    /\ Fail("rpc")
    /\ UNCHANGED <<tree, paging, line, seen, early, shown, sent, pager>>

Layout ==
    /\ phase = "layout"
    /\ ~LayoutPanics(seen, command)
    /\ shown' = Rows(seen, command)
    /\ IF NothingToPrint(seen, command) THEN Return("shown") ELSE GoTo("page")
    /\ UNCHANGED <<tree, paging, line, seen, early, sent, pager, trouble>>

LayoutFails ==
    /\ phase = "layout"
    /\ LayoutPanics(seen, command) \/ MayPanic(seen, command)
    /\ Panic
    /\ UNCHANGED <<tree, paging, line, seen, early, shown, sent, pager, trouble>>

-----------------------------------------------------------------------------
(* page_output and page_table: print, or spawn the pager, feed it and wait *)
(* for it.                                                                 *)
PrintOut ==
    /\ phase = "page"
    /\ ~paging
    /\ Return("shown")
    /\ UNCHANGED <<tree, paging, line, seen, early, shown, sent, pager, trouble>>

SpawnPager ==
    /\ phase = "page"
    /\ paging
    /\ pager' = "running"
    /\ GoTo("write")
    /\ UNCHANGED <<tree, paging, line, seen, early, shown, sent, trouble>>

SpawnFails ==
    /\ phase = "page"
    /\ paging
    /\ Return("reported")
    /\ Fail("pager")
    /\ UNCHANGED <<tree, paging, line, seen, early, shown, sent, pager>>

WritePager ==
    /\ phase = "write"
    /\ pager = "running"
    /\ GoTo("wait")
    /\ UNCHANGED <<tree, paging, line, seen, early, shown, sent, pager, trouble>>

\* Mutant: the rest is written again and again.
WriteAgain == phase = "write" /\ pager = "left" /\ UNCHANGED vars

(* The pager ended before it had read everything: the write fails, and the *)
(* child is dropped without a wait.                                        *)
WriteFails ==
    /\ phase = "write"
    /\ pager = "left"
    /\ Return("reported")
    /\ Fail("pager")
    /\ UNCHANGED <<tree, paging, line, seen, early, shown, sent, pager>>

\* Mutant: nobody waits for the pager.
WaitNot ==
    /\ phase = "wait"
    /\ Return("shown")
    /\ UNCHANGED <<tree, paging, line, seen, early, shown, sent, pager, trouble>>

WaitPager ==
    /\ phase = "wait"
    /\ pager = "left"
    /\ pager' = "none"
    /\ Return("shown")
    /\ UNCHANGED <<tree, paging, line, seen, early, shown, sent, trouble>>

(* The user leaves the pager, or it ends by itself on less than a screen.  *)
LeavePager ==
    /\ pager = "running"
    /\ pager' = "left"
    /\ UNCHANGED <<tree, paging, phase, line, seen, early, shown, sent, outcome, trouble>>

-----------------------------------------------------------------------------
(* Session::execute.                                                       *)
ExecuteRpc ==
    /\ phase = "execute"
    /\ sent' = command.steps[2]
    /\ Return("shown")
    /\ UNCHANGED <<tree, paging, line, seen, early, shown, pager, trouble>>

ExecuteFails ==
    /\ phase = "execute"
    /\ Return("reported")
    /\ Fail("rpc")
    /\ UNCHANGED <<tree, paging, line, seen, early, shown, sent, pager>>

\* Mutant: the line is kept.
NextLineKeeps ==
    /\ phase = "returned"
    /\ phase' = "prompt"
    /\ outcome' = "none"
    /\ trouble' = {}
    /\ UNCHANGED <<tree, paging, line, seen, early, shown, sent, pager>>

(* The shell prints the error if there is one and reads the next line.     *)
NextLine ==
    /\ phase = "returned"
    /\ phase' = "prompt"
    /\ line' = Absent /\ seen' = Absent /\ early' = Absent
    /\ shown' = {} /\ sent' = {}
    /\ outcome' = "none"
    /\ trouble' = {}
    /\ UNCHANGED <<tree, paging, pager>>

(* The daemon's tree changes, between two RPCs of a command too.           *)
DaemonMoves ==
    /\ tree' \in Trees \ {tree}
    /\ UNCHANGED <<paging, phase, line, seen, early, shown, sent, outcome, pager, trouble>>

(* The program goes on: with the layout one way or the other, one of them  *)
(* being possible whatever was fetched, and everywhere else as above.      *)
Proceed ==
    \/ phase = "layout" /\ phase' \in Phases \ {"layout"}
    \/ First \/ FirstFails \/ Fetch \/ FetchFails
    \/ PrintOut \/ SpawnPager \/ SpawnFails \/ WritePager \/ WriteFails \/ WaitPager
    \/ ExecuteRpc \/ ExecuteFails \/ NextLine

Next ==
    \/ \E l \in Offered : Call(l)
    \/ First \/ FirstFails \/ Fetch \/ FetchFails \/ Layout \/ LayoutFails
    \/ PrintOut \/ SpawnPager \/ SpawnFails \/ WritePager \/ WriteFails \/ WaitPager
    \/ ExecuteRpc \/ ExecuteFails \/ NextLine
    \/ LeavePager
    \/ DaemonMoves

(* The program takes its next step, an RPC is answered or fails, and the   *)
(* user leaves the pager in the end.  Nobody has to type.                  *)
Fairness == WF_phase(Proceed) /\ WF_vars(LeavePager)

Spec == Init /\ [][Next]_vars /\ Fairness

-----------------------------------------------------------------------------
TypeOK ==
    /\ tree \in Trees
    /\ paging \in BOOLEAN
    /\ phase \in Phases
    /\ line \in Offered \cup {Absent}
    /\ line = Absent <=> phase = "prompt"
    /\ seen \in Trees \cup {Absent}
    /\ phase = "layout" => seen # Absent
    /\ early \in Trees \cup {Absent}
    /\ outcome \in {"none", "shown", "reported"}
    /\ pager \in {"none", "running", "left"}
    /\ trouble \subseteq {"arguments", "rpc", "pager"}

Returned == phase = "returned"

(* The arguments that pick entries, and the leaves each is a value of.     *)
Filters == {"name", "router_id", "prefix", "address", "neighbor", "fec", "lsr-id"}
LeavesOf(name) ==
    CASE name = "name" -> {"name", "interface"}
      [] name = "router_id" -> {"neighbor-router-id"}
      [] name = "prefix" -> {"prefix", "ipv4-prefix", "ipv6-prefix"}
      [] name = "address" -> {"address", "ipv4-address", "ipv6-address"}
      [] name = "neighbor" -> {"neighbor-address", "remote-address"}
      [] name = "fec" -> {"fec"}
      [] name = "lsr-id" -> {"lsr-id"}
      [] OTHER -> {}

(* An entry carries the words of a line: the protocol, the family, ipv4    *)
(* when none was typed, and in some step each word it was filtered by.     *)
Carries(entry, args) ==
    /\ "protocol" \in DOMAIN args => entry.protocol = args.protocol
    /\ entry.family \in {Absent, IF "afi" \in DOMAIN args THEN args.afi ELSE "ipv4"}
    /\ \A name \in DOMAIN args \cap Filters :
          \E i \in DOMAIN entry.path :
              entry.path[i].leaf \in LeavesOf(name) /\ entry.path[i].key = args[name]

(* What a line is about, by its help, in an answer of the data it asks for *)
(* and of the instance its command knows.                                  *)
Asked(t, l) ==
    LET c == Callback(l.cmd, l.args)
    IN  {n \in Visible(t, c.data) : /\ n.kind = l.about
                                    /\ c.instance \in {Absent, n.instance}
                                    /\ Carries(n, l.args)}

(* A command that laid out an answer has shown all of the entries its help *)
(* and its words name, and no other; an RPC that clears something carried  *)
(* the neighbor that was typed, and nothing when nothing was.              *)
ActsAsTyped ==
    Returned /\ outcome = "shown" =>
        /\ command.layout \in {"table", "text", "routes"} => shown = Asked(seen, line)
        /\ command.layout = "execute" =>
              LET neighbor == {line.args[name] : name \in DOMAIN line.args \cap {"neighbor"}}
                  type == {line.args[name] : name \in DOMAIN line.args \cap {"type"}}
              IN  /\ neighbor \subseteq sent
                  /\ type = {} => sent = neighbor

(* No line the trees offer brings a callback an argument it does not know, *)
(* except the neighbor to clear that is not an address.                    *)
ArgumentsFit ==
    "arguments" \in trouble =>
        line.cmd = "cmd_clear_bgp_neighbor" /\ line.args.neighbor \notin Address

(* A command that returns has reported an error if something went wrong on *)
(* the way, and only then.                                                 *)
FailureReported == Returned => (outcome = "reported" <=> trouble # {})

(* The prompt and the pager never read the terminal at the same time.      *)
PagerOwnsTerminal == pager = "running" => phase \in {"write", "wait"}

(* Each answer of the daemon has, by itself, what the command takes from   *)
(* it: the first the container; the other the leaves that are unwrapped,   *)
(* and for text anything at all.                                           *)
Supplied ==
    /\ early # Absent => FirstSuffices(early, command)
    /\ seen # Absent =>
          /\ \A n \in Rows(seen, command), leaf \in command.needs :
                <<n, leaf>> \notin Data[seen].lacks
          /\ command.layout = "text" => Answer(seen, command) # {}

(* No argument is unknown, no RPC fails, each answer suffices, every route *)
(* refers to an attribute set that is known, and no word holds a quote.    *)
WellServed ==
    /\ trouble = {}
    /\ Supplied
    /\ early # Absent /\ seen # Absent => ~SetUnknown(seen, command)
    /\ \A name \in DOMAIN line.args : line.args[name] \notin Quoted

(* A panic has one of these causes.  The daemon may change between the two *)
(* RPCs of a command as it likes: that alone ends no command but the one   *)
(* for the routes of a BGP neighbor, and that one only by an attribute set *)
(* that appeared in between.                                               *)
PanicHasCause == phase = "panicked" => ~WellServed

(* internal_commands.xml:85, "AS-Scope LSAs" of the "Link state database", *)
(* and internal_commands.rs:74, "Adds a YANG list key filter": a command   *)
(* that is well served shows what its help and its words name.             *)
HelpIsTrue ==
    phase \in {"returned", "panicked"} /\ WellServed =>
        /\ phase = "returned"
        /\ command.layout = "table" => shown = Asked(seen, line)

(* A command comes back to the prompt, or ends the program.                *)
CommandEnds == phase # "prompt" ~> phase \in {"prompt", "panicked"}
=============================================================================
