----------------------------- MODULE Northbound -----------------------------
(***************************************************************************)
(* Several sessions of holo-cli and the daemon they configure (grpc.rs and  *)
(* the calls of session.rs to it).                                          *)
(*                                                                          *)
(* A session fetches the running configuration once, in Session::new, and   *)
(* from then on keeps its own copy of it.  A commit sends the difference    *)
(* between that copy and the candidate.  The session waits for the answer,  *)
(* but the daemon serves the other sessions meanwhile, and the connection   *)
(* may fail before or after the daemon has served the request.              *)
(*                                                                          *)
(* A configuration is a tree of list entries and leaves: an entry that is   *)
(* removed takes with it whatever is in it, also what another session put   *)
(* there.  How a line edits the candidate and how the mode changes is the   *)
(* subject of Cli; here an edit sets or removes any node while there is a   *)
(* candidate.  The daemon is not part of this repository: it is modelled    *)
(* from how the requests and the answers are used.                          *)
(***************************************************************************)
EXTENDS Integers, FiniteSets

CONSTANTS
  Client,      \* the sessions, each with its own connection
  Node,        \* the list entries and the leaves of a configuration
  Above,       \* the entries that each node is in, nested ones included
  Value,       \* what a leaf may be set to
  Present,     \* the value of an entry that is in the configuration
  Unset,       \* a node that is not in the configuration
  MaxOrphans   \* bound: requests of broken connections the daemon may still hold

ASSUME ValueAssumption == Unset \notin Value /\ Present # Unset

ASSUME TreeAssumption ==
  /\ Above \in [Node -> SUBSET Node]
  /\ \A n \in Node : n \notin Above[n] /\ \A a \in Above[n] : Above[a] \subseteq Above[n]

VARIABLES
  config,      \* the daemon's running configuration
  requests,    \* commit requests under way to the daemon
  phase,       \* what each session is doing
  answer,      \* the daemon's answer under way to each session
  running,     \* Session.running
  candidate,   \* Session.candidate, an Option
  edited,      \* history: nodes edited since the candidate was last in step with running
  known        \* history: every change of config since the session's last
               \* exchange with the daemon is one it was told of

session == <<running, candidate, edited>>
vars == <<config, requests, phase, answer, session, known>>

-----------------------------------------------------------------------------
Entry == UNION {Above[n] : n \in Node}
Setting(n) == (IF n \in Entry THEN {Present} ELSE Value) \cup {Unset}
Content == Value \cup {Present, Unset}

\* A node is in a configuration only with the entries that it is in.
Config == {cfg \in [Node -> Content] :
             \A n \in Node : /\ cfg[n] \in Setting(n)
                             /\ cfg[n] # Unset => \A a \in Above[n] : cfg[a] # Unset}

\* DataTree::new_path and remove: a node comes with the entries it is in, and
\* goes with what is in it.
EditedTree(tree, node, value) ==
  [n \in Node |-> IF n = node THEN value
                  ELSE IF value = Unset /\ node \in Above[n] THEN Unset
                  ELSE IF value # Unset /\ n \in Above[node] THEN Present
                  ELSE tree[n]]

\* Mutant: the difference is taken the other way round.
DiffSwapped(old, new) == [n \in {m \in Node : old[m] # new[m]} |-> old[n]]

\* DataTree::diff.
Diff(old, new) == [n \in {m \in Node : old[m] # new[m]} |-> new[n]]

\* What the daemon makes of a difference: an entry that it removes is removed
\* with everything the daemon has in it.
Removes(diff, node) == node \in DOMAIN diff /\ diff[node] = Unset
Apply(cfg, diff) == [n \in Node |-> IF \E a \in Above[n] : Removes(diff, a) THEN Unset
                                    ELSE IF n \in DOMAIN diff THEN diff[n]
                                    ELSE cfg[n]]

Empty == [n \in Node |-> Unset]

NoCandidate == [some |-> FALSE, tree |-> Empty]
Some(cfg) == [some |-> TRUE, tree |-> cfg]

\* An answer carries a status and, for Get, a configuration.
NoAnswer == [status |-> "none", data |-> Empty]
Ok == [NoAnswer EXCEPT !.status = "ok"]
Failed == [NoAnswer EXCEPT !.status = "error"]
Data(cfg) == [status |-> "ok", data |-> cfg]

\* A request; "edits" is history: what its user had edited.
Request(c, diff) == [client |-> c, diff |-> diff, waited |-> TRUE, edits |-> edited[c]]

\* The requests once c has stopped waiting: the daemon may still serve them.
Abandoned(c) == {IF r.client = c THEN [r EXCEPT !.waited = FALSE] ELSE r : r \in requests}
OrphanBound(c) == Cardinality({r \in Abandoned(c) : ~r.waited}) <= MaxOrphans

\* The session is between two lines.
Idle(c) == phase[c] = "idle"

-----------------------------------------------------------------------------
(***************************************************************************)
(* Start-up.                                                                *)
(***************************************************************************)

\* Session::new asks for the configuration.
Fetch(c) ==
  /\ phase[c] = "down"
  /\ phase' = [phase EXCEPT ![c] = "fetching"]
  /\ UNCHANGED <<config, requests, answer, session, known>>

ServeGet(c) ==
  /\ phase[c] = "fetching" /\ answer[c] = NoAnswer
  /\ answer' = [answer EXCEPT ![c] = Data(config)]
  /\ known' = [known EXCEPT ![c] = TRUE]
  /\ UNCHANGED <<config, requests, phase, session>>

New(c) ==
  /\ phase[c] = "fetching" /\ answer[c].status = "ok"
  /\ running' = [running EXCEPT ![c] = answer[c].data]
  /\ phase' = [phase EXCEPT ![c] = "idle"]
  /\ answer' = [answer EXCEPT ![c] = NoAnswer]
  /\ UNCHANGED <<config, requests, candidate, edited, known>>

\* Mutant: the request of a session that is gone is still taken for one that a
\* session waits for.
ExitQuiet(c) ==
  /\ phase[c] # "down"
  /\ phase' = [phase EXCEPT ![c] = "down"]
  /\ answer' = [answer EXCEPT ![c] = NoAnswer]
  /\ running' = [running EXCEPT ![c] = Empty]
  /\ candidate' = [candidate EXCEPT ![c] = NoCandidate]
  /\ edited' = [edited EXCEPT ![c] = {}]
  /\ known' = [known EXCEPT ![c] = FALSE]
  /\ UNCHANGED <<config, requests>>

\* The process ends: a line said so, Get failed (its unwrap), or it was killed,
\* perhaps in the middle of a commit.
Exit(c) ==
  /\ phase[c] # "down"
  /\ OrphanBound(c)
  /\ phase' = [phase EXCEPT ![c] = "down"]
  /\ answer' = [answer EXCEPT ![c] = NoAnswer]
  /\ requests' = Abandoned(c)
  /\ running' = [running EXCEPT ![c] = Empty]
  /\ candidate' = [candidate EXCEPT ![c] = NoCandidate]
  /\ edited' = [edited EXCEPT ![c] = {}]
  /\ known' = [known EXCEPT ![c] = FALSE]
  /\ UNCHANGED config

-----------------------------------------------------------------------------
(***************************************************************************)
(* The commands of a session that touch its copies.                         *)
(***************************************************************************)

\* mode_set to configuration mode, and candidate_discard.
Refresh(c) ==
  /\ Idle(c)
  /\ candidate' = [candidate EXCEPT ![c] = Some(running[c])]
  /\ edited' = [edited EXCEPT ![c] = {}]
  /\ UNCHANGED <<config, requests, phase, answer, running, known>>

\* mode_set to operational mode.
Leave(c) ==
  /\ Idle(c)
  /\ candidate' = [candidate EXCEPT ![c] = NoCandidate]
  /\ edited' = [edited EXCEPT ![c] = {}]
  /\ UNCHANGED <<config, requests, phase, answer, running, known>>

\* edit_candidate.  Edited is the node of the line, whether the candidate had it
\* so already or not, and what changes with it.
Edit(c, node, value) ==
  /\ Idle(c) /\ candidate[c].some
  /\ LET tree == candidate[c].tree
         new == EditedTree(tree, node, value)
     IN /\ candidate' = [candidate EXCEPT ![c] = Some(new)]
        /\ edited' = [edited EXCEPT ![c] = @ \cup {node} \cup {n \in Node : new[n] # tree[n]}]
  /\ UNCHANGED <<config, requests, phase, answer, running, known>>

\* Mutant: the candidate is sent as it is.
WholeCandidate(c) == Request(c, candidate[c].tree)

CommitRequest(c) == Request(c, Diff(running[c], candidate[c].tree))

\* candidate_commit up to the call; a candidate that is not valid for the
\* schema is not sent, and then nothing changes.
SendCommit(c) ==
  /\ Idle(c) /\ candidate[c].some
  /\ requests' = requests \cup {CommitRequest(c)}
  /\ phase' = [phase EXCEPT ![c] = "committing"]
  /\ UNCHANGED <<config, answer, session, known>>

-----------------------------------------------------------------------------
(***************************************************************************)
(* The daemon and the connections.                                          *)
(***************************************************************************)

\* The session that waits for this request, if any, gets the answer.
AnswerTo(r, a) == IF r.waited THEN [answer EXCEPT ![r.client] = a] ELSE answer

\* The daemon takes the change if a configuration comes of it: no node can be
\* put into an entry that another session has removed.
DaemonCommits(r) ==
  /\ Apply(config, r.diff) \in Config
  /\ config' = Apply(config, r.diff)
  /\ requests' = requests \ {r}
  /\ answer' = AnswerTo(r, Ok)
  /\ known' = [c \in Client |->
                 known[c] /\ (config' = config \/ (r.waited /\ r.client = c))]
  /\ UNCHANGED <<phase, session>>

\* The daemon finds the change invalid or has no resources for it.
DaemonRefuses(r) ==
  /\ requests' = requests \ {r}
  /\ answer' = AnswerTo(r, Failed)
  /\ UNCHANGED <<config, phase, session, known>>

\* The connection breaks before the answer has come: the call ends with an error
\* whether the request still reaches the daemon, was lost or has been served.
Break(c) ==
  /\ phase[c] = "committing"
  /\ answer' = [answer EXCEPT ![c] = Failed]
  /\ \/ OrphanBound(c) /\ requests' = Abandoned(c)
     \/ requests' = {r \in requests : r.client # c \/ ~r.waited}
  /\ known' = [known EXCEPT ![c] = @ /\ answer[c].status # "ok"]
  /\ UNCHANGED <<config, phase, session>>

\* Mutant: the candidate becomes the running copy whatever the answer.
ReceiveAny(c) ==
  /\ phase[c] = "committing" /\ answer[c] # NoAnswer
  /\ running' = [running EXCEPT ![c] = candidate[c].tree]
  /\ edited' = [edited EXCEPT ![c] = {}]
  /\ phase' = [phase EXCEPT ![c] = "idle"]
  /\ answer' = [answer EXCEPT ![c] = NoAnswer]
  /\ UNCHANGED <<config, requests, candidate, known>>

\* candidate_commit after the call.
Receive(c) ==
  /\ phase[c] = "committing" /\ answer[c] # NoAnswer
  /\ IF answer[c].status = "ok"
     THEN /\ running' = [running EXCEPT ![c] = candidate[c].tree]
          /\ edited' = [edited EXCEPT ![c] = {}]
     ELSE UNCHANGED <<running, edited>>
  /\ phase' = [phase EXCEPT ![c] = "idle"]
  /\ answer' = [answer EXCEPT ![c] = NoAnswer]
  /\ UNCHANGED <<config, requests, candidate, known>>

-----------------------------------------------------------------------------
Init ==
  /\ config \in Config
  /\ requests = {}
  /\ phase = [c \in Client |-> "down"]
  /\ answer = [c \in Client |-> NoAnswer]
  /\ running = [c \in Client |-> Empty]
  /\ candidate = [c \in Client |-> NoCandidate]
  /\ edited = [c \in Client |-> {}]
  /\ known = [c \in Client |-> FALSE]

Session(c) ==
  \/ Fetch(c) \/ New(c) \/ Exit(c)
  \/ Refresh(c) \/ Leave(c) \/ SendCommit(c) \/ Receive(c)
  \/ \E node \in Node : \E value \in Setting(node) : Edit(c, node, value)

Daemon ==
  \/ \E r \in requests : DaemonCommits(r) \/ DaemonRefuses(r)
  \/ \E c \in Client : ServeGet(c) \/ Break(c)

Next == (\E c \in Client : Session(c)) \/ Daemon

Spec == Init /\ [][Next]_vars
-----------------------------------------------------------------------------
(***************************************************************************)
(* Properties.                                                              *)
(***************************************************************************)

Change == UNION {[nodes -> Content] : nodes \in SUBSET Node}

\* The state has the types of the code's structures, and a session waits for at
\* most one request at a time, whose answer has not come: calls are synchronous.
TypeOK ==
  /\ config \in Config
  /\ requests \subseteq [client : Client, diff : Change, waited : BOOLEAN, edits : SUBSET Node]
  /\ \A r \in requests : r.waited => phase[r.client] = "committing" /\ answer[r.client] = NoAnswer
  /\ \A r, s \in requests : r.waited /\ s.waited /\ r.client = s.client => r = s
  /\ phase \in [Client -> {"down", "fetching", "idle", "committing"}]
  /\ answer \in [Client -> [status : {"none", "ok", "error"}, data : Config]]
  /\ running \in [Client -> Config]
  /\ candidate \in [Client -> [some : BOOLEAN, tree : Config]]
  /\ edited \in [Client -> SUBSET Node]
  /\ known \in [Client -> BOOLEAN]

\* A session that was told of every change since its last exchange - no other
\* session committed, and no answer of its own was lost - has an accurate copy
\* of the running configuration whenever it reads a line, although it never
\* asks for it again: what a commit leaves at the daemon is the candidate.
KnownMeansAccurate == \A c \in Client : Idle(c) /\ known[c] => running[c] = config

\* However stale the copy of a session is, and even if the session has given the
\* request up, all that a commit changes at the daemon is what the user who sent
\* it had edited by then, and what others put into an entry that this user
\* removed: every other setting of another session survives.
OthersSurvive ==
  [][config' # config =>
       \E r \in requests \ requests' :
         \A n \in Node : config'[n] # config[n] =>
           n \in r.edits \/ \E a \in Above[n] \cap r.edits : config'[a] = Unset]_vars

\* The daemon accepts a commit that the session waits for.
Accepts(c) == phase[c] = "committing" /\ answer[c] = NoAnswer /\ answer'[c].status = "ok"

\* Whatever the others have committed meanwhile, what the user edited is at the
\* daemon with the value of the candidate from the moment it accepts the commit.
\* The one exception is a node that the user has put back to what the session's
\* copy has while the daemon already has something else: it is not in the
\* difference (grpc.rs:138).
CommitTakesEffect ==
  [][\A c \in Client : Accepts(c) =>
       \A n \in edited[c] :
         LET wanted == candidate[c].tree[n]
         IN config'[n] = wanted \/ (wanted = running[c][n] /\ config[n] # wanted)]_vars

\* internal_commands.xml:212 "Commit current set of changes.": once the daemon has
\* accepted the commit, every node the user edited is as the candidate has it.
ChangesAreCommitted ==
  [][\A c \in Client : Accepts(c) =>
       \A n \in edited[c] : config'[n] = candidate[c].tree[n]]_vars
=============================================================================
