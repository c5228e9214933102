-------------------------- MODULE NorthboundProofs --------------------------
(***************************************************************************)
(* For any number of sessions, entries, leaves and values, with connections *)
(* that break at any moment: a session that was told of every change has an *)
(* accurate copy, no commit touches what its user did not edit or remove,   *)
(* and what the daemon accepts is what the user edited, but for a node put  *)
(* back to the value of a stale copy.                                       *)
(***************************************************************************)
EXTENDS Northbound, TLAPS

-----------------------------------------------------------------------------
(***************************************************************************)
(* Differences.                                                             *)
(***************************************************************************)

\* A difference is a change.
LEMMA DiffType ==
  ASSUME NEW old \in Config, NEW new \in Config
  PROVE  Diff(old, new) \in Change
  <1> DEFINE nodes == {m \in Node : old[m] # new[m]}
  <1>1. nodes \in SUBSET Node  OBVIOUS
  <1>2. Diff(old, new) \in [nodes -> Content]  BY DEF Diff, Config
  <1>3. QED  BY <1>1, <1>2 DEF Change

\* The difference between two configurations turns the one into the other: below
\* an entry that it removes the new configuration has nothing.
LEMMA ApplyDiff ==
  ASSUME NEW old \in Config, NEW new \in Config
  PROVE  Apply(old, Diff(old, new)) = new
  <1>1. \A n \in Node : Apply(old, Diff(old, new))[n] = new[n]
    <2> SUFFICES ASSUME NEW n \in Node  PROVE Apply(old, Diff(old, new))[n] = new[n]
      OBVIOUS
    <2>1. CASE \E a \in Above[n] : Removes(Diff(old, new), a)
      <3>1. PICK a \in Above[n] : Removes(Diff(old, new), a)  BY <2>1
      <3>2. a \in Node /\ new[a] = Unset  BY <3>1, TreeAssumption DEF Removes, Diff
      <3>3. new[n] = Unset  BY <3>2 DEF Config
      <3>4. QED  BY <2>1, <3>3 DEF Apply
    <2>2. CASE ~\E a \in Above[n] : Removes(Diff(old, new), a)
      BY <2>2 DEF Apply, Diff
    <2>3. QED  BY <2>1, <2>2
  <1>2. QED  BY <1>1 DEF Apply, Config

\* An edit of a configuration makes a configuration.
LEMMA EditedType ==
  ASSUME NEW tree \in Config, NEW node \in Node, NEW value \in Setting(node)
  PROVE  EditedTree(tree, node, value) \in Config
  <1> DEFINE new == EditedTree(tree, node, value)
  <1>1. \A n \in Node : new[n] \in Setting(n)
    BY TreeAssumption DEF EditedTree, Setting, Entry, Config
  <1>2. \A n \in Node : Setting(n) \subseteq Content  BY DEF Setting, Content
  <1>3. new \in [Node -> Content]  BY <1>1, <1>2 DEF EditedTree
  <1>4. ASSUME NEW n \in Node, new[n] # Unset, NEW a \in Above[n]  PROVE new[a] # Unset
    <2>1. a \in Node /\ a # n /\ Above[a] \subseteq Above[n]  BY TreeAssumption
    <2>2. tree[n] # Unset => tree[a] # Unset  BY DEF Config
    <2>3. Present # Unset  BY ValueAssumption
    <2>4. CASE n = node
      BY <1>4, <2>1, <2>3, <2>4 DEF EditedTree
    <2>5. CASE n # node /\ value = Unset
      BY <1>4, <2>1, <2>2, <2>5 DEF EditedTree
    <2>6. CASE n # node /\ value # Unset /\ n \in Above[node]
      <3>1. a \in Above[node]  BY <2>1, <2>6, TreeAssumption
      <3>2. QED  BY <2>1, <2>3, <2>6, <3>1 DEF EditedTree
    <2>7. CASE n # node /\ value # Unset /\ n \notin Above[node]
      BY <1>4, <2>1, <2>2, <2>3, <2>7 DEF EditedTree
    <2>8. QED  BY <2>4, <2>5, <2>6, <2>7
  <1>5. QED  BY <1>1, <1>3, <1>4 DEF Config

-----------------------------------------------------------------------------
(***************************************************************************)
(* The inductive invariant.  An exchange passes through the request, the    *)
(* answer and the session's own assignments; the copy is accurate between   *)
(* two lines because of what holds at each of these stages.                 *)
(***************************************************************************)

\* A session that has not started knows nothing and has no candidate, and one
\* that asked for nothing has no answer under way.
QuietSessions ==
  \A c \in Client : /\ phase[c] = "down" => ~known[c]
                    /\ phase[c] \in {"down", "fetching"} => ~candidate[c].some
                    /\ phase[c] \in {"down", "idle"} => answer[c] = NoAnswer

\* A request that a session waits for is still the difference of its copies.
RequestCurrent ==
  \A r \in requests : r.waited =>
    r.diff = Diff(running[r.client], candidate[r.client].tree)

\* Every request, given up or not, carries only what its user had edited.
RequestOfUser == \A r \in requests : DOMAIN r.diff \subseteq r.edits

\* A session that starts up and knows has been answered with what the daemon has.
FetchAccurate ==
  \A c \in Client : known[c] /\ phase[c] = "fetching" => answer[c].data = config

\* The copy is accurate until the daemon says yes, then the candidate is.
CommitAccurate ==
  \A c \in Client : known[c] /\ phase[c] = "committing" =>
    config = IF answer[c].status = "ok" THEN candidate[c].tree ELSE running[c]

\* The candidate is the copy, but for what was edited.
CandidateFromCopy ==
  \A c \in Client : candidate[c].some \/ phase[c] = "committing" =>
    \A n \in Node \ edited[c] : candidate[c].tree[n] = running[c][n]

IInv ==
  /\ TypeOK /\ QuietSessions /\ RequestCurrent /\ RequestOfUser
  /\ FetchAccurate /\ CommitAccurate /\ KnownMeansAccurate /\ CandidateFromCopy

-----------------------------------------------------------------------------
(***************************************************************************)
(* Types of the records the actions build.                                  *)
(***************************************************************************)

\* The records the actions start from.
LEMMA RecordTypes ==
  /\ Empty \in Config
  /\ NoCandidate \in [some : BOOLEAN, tree : Config] /\ ~NoCandidate.some
  /\ NoAnswer \in [status : {"none", "ok", "error"}, data : Config] /\ NoAnswer.status = "none"
  /\ Ok \in [status : {"none", "ok", "error"}, data : Config] /\ Ok.status = "ok"
  /\ Failed \in [status : {"none", "ok", "error"}, data : Config] /\ Failed.status = "error"
  /\ \A cfg \in Config :
       /\ Some(cfg) \in [some : BOOLEAN, tree : Config] /\ Some(cfg).tree = cfg
       /\ Data(cfg) \in [status : {"none", "ok", "error"}, data : Config]
       /\ Data(cfg).status = "ok" /\ Data(cfg).data = cfg
  BY DEF Empty, NoCandidate, NoAnswer, Ok, Failed, Some, Data, Config, Setting, Content

\* A session that stops waiting leaves its requests to the daemon, as they are.
LEMMA AbandonedRequests ==
  ASSUME TypeOK, NEW c \in Client
  PROVE  /\ Abandoned(c) \subseteq [client : Client, diff : Change, waited : BOOLEAN, edits : SUBSET Node]
         /\ \A r \in Abandoned(c) : r.waited => r \in requests /\ r.client # c
         /\ \A r \in Abandoned(c) : \E q \in requests : r.diff = q.diff /\ r.edits = q.edits
  <1>1. \A r \in requests : r \in [client : Client, diff : Change, waited : BOOLEAN, edits : SUBSET Node]
    BY DEF TypeOK
  <1>2. \A r \in requests :
          /\ [r EXCEPT !.waited = FALSE] \in [client : Client, diff : Change, waited : BOOLEAN, edits : SUBSET Node]
          /\ ~[r EXCEPT !.waited = FALSE].waited
          /\ [r EXCEPT !.waited = FALSE].diff = r.diff /\ [r EXCEPT !.waited = FALSE].edits = r.edits
    BY <1>1
  <1>3. QED  BY <1>1, <1>2 DEF Abandoned

-----------------------------------------------------------------------------
(***************************************************************************)
(* Every step preserves the invariant.                                      *)
(***************************************************************************)

\* At first no session has asked for anything.
LEMMA InitInvariant == Init => IInv
  BY RecordTypes DEF Init, Config, IInv, TypeOK, QuietSessions, RequestCurrent, FetchAccurate,
     CommitAccurate,
     KnownMeansAccurate, CandidateFromCopy, RequestOfUser, Setting, Content

\* A session asks for the running configuration.
LEMMA FetchStep ==
  ASSUME IInv, NEW c \in Client, Fetch(c)
  PROVE  IInv'
  <1>1. TypeOK'  BY RecordTypes DEF session, Fetch, Idle, IInv, TypeOK
  <1>2. QuietSessions'  BY RecordTypes DEF session, Fetch, Idle, IInv, TypeOK, QuietSessions
  <1>3. RequestCurrent'  BY RecordTypes DEF session, Fetch, Idle, IInv, TypeOK, RequestCurrent
  <1>4. FetchAccurate'
    BY RecordTypes DEF session, Fetch, Idle, IInv, TypeOK, FetchAccurate, QuietSessions
  <1>5. CommitAccurate'  BY RecordTypes DEF session, Fetch, Idle, IInv, TypeOK, CommitAccurate
  <1>6. KnownMeansAccurate'
    BY RecordTypes DEF session, Fetch, Idle, IInv, TypeOK, KnownMeansAccurate
  <1>7. CandidateFromCopy'  BY RecordTypes DEF session, Fetch, Idle, IInv, TypeOK, CandidateFromCopy
  <1>8. RequestOfUser'  BY DEF Fetch, IInv, TypeOK, RequestOfUser
  <1>9. QED  BY <1>1, <1>2, <1>3, <1>4, <1>5, <1>6, <1>7, <1>8 DEF IInv

\* The daemon answers with what it has.
LEMMA ServeGetStep ==
  ASSUME IInv, NEW c \in Client, ServeGet(c)
  PROVE  IInv'
  <1>1. TypeOK'  BY RecordTypes DEF session, ServeGet, Idle, IInv, TypeOK
  <1>2. QuietSessions'  BY RecordTypes DEF session, ServeGet, Idle, IInv, TypeOK, QuietSessions
  <1>3. RequestCurrent'  BY RecordTypes DEF session, ServeGet, Idle, IInv, TypeOK, RequestCurrent
  <1>4. FetchAccurate'  BY RecordTypes DEF session, ServeGet, Idle, IInv, TypeOK, FetchAccurate
  <1>5. CommitAccurate'  BY RecordTypes DEF session, ServeGet, Idle, IInv, TypeOK, CommitAccurate
  <1>6. KnownMeansAccurate'
    BY RecordTypes DEF session, ServeGet, Idle, IInv, TypeOK, KnownMeansAccurate
  <1>7. CandidateFromCopy'
    BY RecordTypes DEF session, ServeGet, Idle, IInv, TypeOK, CandidateFromCopy
  <1>8. RequestOfUser'  BY DEF ServeGet, IInv, TypeOK, RequestOfUser
  <1>9. QED  BY <1>1, <1>2, <1>3, <1>4, <1>5, <1>6, <1>7, <1>8 DEF IInv

\* The answer becomes the copy of the session.
LEMMA NewStep ==
  ASSUME IInv, NEW c \in Client, New(c)
  PROVE  IInv'
  <1>1. TypeOK'  BY RecordTypes DEF session, New, Idle, IInv, TypeOK
  <1>2. QuietSessions'  BY RecordTypes DEF session, New, Idle, IInv, TypeOK, QuietSessions
  <1>3. RequestCurrent'  BY RecordTypes DEF session, New, Idle, IInv, TypeOK, RequestCurrent
  <1>4. FetchAccurate'  BY RecordTypes DEF session, New, Idle, IInv, TypeOK, FetchAccurate
  <1>5. CommitAccurate'  BY RecordTypes DEF session, New, Idle, IInv, TypeOK, CommitAccurate
  <1>6. KnownMeansAccurate'
    BY RecordTypes DEF session, New, Idle, IInv, TypeOK, KnownMeansAccurate, FetchAccurate
  <1>7. CandidateFromCopy'
    BY RecordTypes DEF session, New, Idle, IInv, TypeOK, CandidateFromCopy, QuietSessions
  <1>8. RequestOfUser'  BY DEF New, IInv, TypeOK, RequestOfUser
  <1>9. QED  BY <1>1, <1>2, <1>3, <1>4, <1>5, <1>6, <1>7, <1>8 DEF IInv

\* A session ends; its requests may still be served.
LEMMA ExitStep ==
  ASSUME IInv, NEW c \in Client, Exit(c)
  PROVE  IInv'
  <1>1. TypeOK'  BY RecordTypes, AbandonedRequests DEF Exit, Idle, IInv, TypeOK
  <1>2. QuietSessions'
    BY RecordTypes, AbandonedRequests DEF Exit, Idle, IInv, TypeOK, QuietSessions
  <1>3. RequestCurrent'
    BY RecordTypes, AbandonedRequests DEF Exit, Idle, IInv, TypeOK, RequestCurrent
  <1>4. FetchAccurate'
    BY RecordTypes, AbandonedRequests DEF Exit, Idle, IInv, TypeOK, FetchAccurate
  <1>5. CommitAccurate'
    BY RecordTypes, AbandonedRequests DEF Exit, Idle, IInv, TypeOK, CommitAccurate
  <1>6. KnownMeansAccurate'
    BY RecordTypes, AbandonedRequests DEF Exit, Idle, IInv, TypeOK, KnownMeansAccurate
  <1>7. CandidateFromCopy'
    BY RecordTypes, AbandonedRequests DEF Exit, Idle, IInv, TypeOK, CandidateFromCopy
  <1>8. RequestOfUser'  BY AbandonedRequests DEF Exit, IInv, RequestOfUser
  <1>9. QED  BY <1>1, <1>2, <1>3, <1>4, <1>5, <1>6, <1>7, <1>8 DEF IInv

\* The candidate is made from the copy.
LEMMA RefreshStep ==
  ASSUME IInv, NEW c \in Client, Refresh(c)
  PROVE  IInv'
  <1>1. TypeOK'  BY RecordTypes DEF Refresh, Idle, IInv, TypeOK
  <1>2. QuietSessions'  BY RecordTypes DEF Refresh, Idle, IInv, TypeOK, QuietSessions
  <1>3. RequestCurrent'  BY RecordTypes DEF Refresh, Idle, IInv, TypeOK, RequestCurrent
  <1>4. FetchAccurate'  BY RecordTypes DEF Refresh, Idle, IInv, TypeOK, FetchAccurate
  <1>5. CommitAccurate'  BY RecordTypes DEF Refresh, Idle, IInv, TypeOK, CommitAccurate
  <1>6. KnownMeansAccurate'  BY RecordTypes DEF Refresh, Idle, IInv, TypeOK, KnownMeansAccurate
  <1>7. CandidateFromCopy'  BY RecordTypes DEF Refresh, Idle, IInv, TypeOK, CandidateFromCopy
  <1>8. RequestOfUser'  BY DEF Refresh, IInv, RequestOfUser
  <1>9. QED  BY <1>1, <1>2, <1>3, <1>4, <1>5, <1>6, <1>7, <1>8 DEF IInv

\* The candidate is dropped.
LEMMA LeaveStep ==
  ASSUME IInv, NEW c \in Client, Leave(c)
  PROVE  IInv'
  <1>1. TypeOK'  BY RecordTypes DEF Leave, Idle, IInv, TypeOK
  <1>2. QuietSessions'  BY RecordTypes DEF Leave, Idle, IInv, TypeOK, QuietSessions
  <1>3. RequestCurrent'  BY RecordTypes DEF Leave, Idle, IInv, TypeOK, RequestCurrent
  <1>4. FetchAccurate'  BY RecordTypes DEF Leave, Idle, IInv, TypeOK, FetchAccurate
  <1>5. CommitAccurate'  BY RecordTypes DEF Leave, Idle, IInv, TypeOK, CommitAccurate
  <1>6. KnownMeansAccurate'  BY RecordTypes DEF Leave, Idle, IInv, TypeOK, KnownMeansAccurate
  <1>7. CandidateFromCopy'  BY RecordTypes DEF Leave, Idle, IInv, TypeOK, CandidateFromCopy
  <1>8. RequestOfUser'  BY DEF Leave, IInv, RequestOfUser
  <1>9. QED  BY <1>1, <1>2, <1>3, <1>4, <1>5, <1>6, <1>7, <1>8 DEF IInv

\* A node of the candidate is set or removed.
LEMMA EditStep ==
  ASSUME IInv, NEW c \in Client, NEW node \in Node, NEW value \in Setting(node),
         Edit(c, node, value)
  PROVE  IInv'
  <1>1. TypeOK'
    <2>1. phase' \in [Client -> {"down", "fetching", "idle", "committing"}]
      BY DEF Edit, Idle, IInv, TypeOK
    <2>2. candidate' \in [Client -> [some : BOOLEAN, tree : Config]]
      <3>1. candidate[c].tree \in Config  BY DEF IInv, TypeOK
      <3>2. Some(EditedTree(candidate[c].tree, node, value)) \in [some : BOOLEAN, tree : Config]
        BY <3>1, EditedType, RecordTypes
      <3>3. candidate' = [candidate EXCEPT ![c] = Some(EditedTree(candidate[c].tree, node, value))]
        BY DEF Edit
      <3>4. QED  BY <3>2, <3>3 DEF IInv, TypeOK
    <2>3. running' \in [Client -> Config] /\ config' \in Config
      BY DEF Edit, Idle, IInv, TypeOK
    <2>4. answer' \in [Client -> [status : {"none", "ok", "error"}, data : Config]]
      BY RecordTypes DEF Edit, Idle, IInv, TypeOK
    <2>5. edited' \in [Client -> SUBSET Node] /\ known' \in [Client -> BOOLEAN]
      BY DEF Edit, Idle, IInv, TypeOK
    <2>6. requests' \subseteq [client : Client, diff : Change, waited : BOOLEAN, edits : SUBSET Node]
      BY DiffType DEF Edit, Idle, IInv, TypeOK
    <2>7. \A r \in requests' : r.waited => phase'[r.client] = "committing" /\ answer'[r.client] = NoAnswer
      BY RecordTypes DEF Edit, Idle, IInv, TypeOK, QuietSessions
    <2>8. \A r, s \in requests' : r.waited /\ s.waited /\ r.client = s.client => r = s
      BY DEF Edit, Idle, IInv, TypeOK
    <2>9. QED  BY <2>1, <2>2, <2>3, <2>4, <2>5, <2>6, <2>7, <2>8 DEF TypeOK
  <1>2. QuietSessions'  BY DEF Edit, Idle, Some, IInv, TypeOK, QuietSessions
  <1>3. RequestCurrent'  BY DEF Edit, Idle, IInv, TypeOK, RequestCurrent
  <1>4. FetchAccurate'  BY DEF Edit, Idle, IInv, TypeOK, FetchAccurate
  <1>5. CommitAccurate'  BY DEF Edit, Idle, IInv, TypeOK, CommitAccurate
  <1>6. KnownMeansAccurate'  BY DEF Edit, Idle, IInv, TypeOK, KnownMeansAccurate
  <1>7. CandidateFromCopy'
    <2> DEFINE tree == candidate[c].tree
               new == EditedTree(tree, node, value)
    <2>1. /\ candidate' = [candidate EXCEPT ![c] = Some(new)]
          /\ edited' = [edited EXCEPT ![c] = @ \cup {node} \cup {n \in Node : new[n] # tree[n]}]
          /\ UNCHANGED <<running, phase>> /\ candidate[c].some
      BY DEF Edit
    <2>2. tree \in Config /\ new \in Config  BY EditedType DEF IInv, TypeOK
    <2>3. candidate'[c].tree = new /\ edited'[c] = edited[c] \cup {node} \cup {n \in Node : new[n] # tree[n]}
      BY <2>1, <2>2, RecordTypes DEF IInv, TypeOK
    <2>4. \A n \in Node \ edited'[c] : candidate'[c].tree[n] = running[c][n]
      BY <2>1, <2>3 DEF IInv, CandidateFromCopy
    <2>5. \A d \in Client \ {c} : candidate'[d] = candidate[d] /\ edited'[d] = edited[d]
      BY <2>1 DEF IInv, TypeOK
    <2>6. QED  BY <2>1, <2>4, <2>5 DEF IInv, CandidateFromCopy
  <1>8. RequestOfUser'  BY DEF Edit, IInv, RequestOfUser
  <1>9. QED  BY <1>1, <1>2, <1>3, <1>4, <1>5, <1>6, <1>7, <1>8 DEF IInv

\* The difference of the copies is sent.
LEMMA SendStep ==
  ASSUME IInv, NEW c \in Client, SendCommit(c)
  PROVE  IInv'
  <1>1. TypeOK'
    <2>1. phase' \in [Client -> {"down", "fetching", "idle", "committing"}]
      BY DEF session, SendCommit, CommitRequest, Request, Idle, IInv, TypeOK
    <2>2. candidate' \in [Client -> [some : BOOLEAN, tree : Config]]
      BY RecordTypes DEF session, SendCommit, CommitRequest, Request, Idle, IInv, TypeOK
    <2>3. running' \in [Client -> Config] /\ config' \in Config
      BY DEF session, SendCommit, CommitRequest, Request, Idle, IInv, TypeOK
    <2>4. answer' \in [Client -> [status : {"none", "ok", "error"}, data : Config]]
      BY RecordTypes DEF session, SendCommit, CommitRequest, Request, Idle, IInv, TypeOK
    <2>5. edited' \in [Client -> SUBSET Node] /\ known' \in [Client -> BOOLEAN]
      BY DEF session, SendCommit, CommitRequest, Request, Idle, IInv, TypeOK
    <2>6. requests' \subseteq [client : Client, diff : Change, waited : BOOLEAN, edits : SUBSET Node]
      <3>1. running[c] \in Config /\ candidate[c].tree \in Config  BY DEF IInv, TypeOK
      <3>2. Diff(running[c], candidate[c].tree) \in Change  BY <3>1, DiffType
      <3>3. CommitRequest(c) \in [client : Client, diff : Change, waited : BOOLEAN, edits : SUBSET Node]
        BY <3>2 DEF CommitRequest, Request, IInv, TypeOK
      <3>4. requests' = requests \cup {CommitRequest(c)}  BY DEF SendCommit
      <3>5. QED  BY <3>3, <3>4 DEF IInv, TypeOK
    <2>7. \A r \in requests' : r.waited => phase'[r.client] = "committing" /\ answer'[r.client] = NoAnswer
      BY RecordTypes DEF session, SendCommit, CommitRequest, Request, Idle, IInv, TypeOK,
         QuietSessions
    <2>8. \A r, s \in requests' : r.waited /\ s.waited /\ r.client = s.client => r = s
      <3>1. \A r \in requests : r.waited => r.client # c  BY DEF SendCommit, Idle, IInv, TypeOK
      <3>2. CommitRequest(c).client = c  BY DEF CommitRequest, Request
      <3>3. requests' = requests \cup {CommitRequest(c)}  BY DEF SendCommit
      <3>4. QED  BY <3>1, <3>2, <3>3 DEF IInv, TypeOK
    <2>9. QED  BY <2>1, <2>2, <2>3, <2>4, <2>5, <2>6, <2>7, <2>8 DEF TypeOK
  <1>2. QuietSessions'
    BY RecordTypes, DiffType DEF session, SendCommit, CommitRequest, Request, Idle, IInv, TypeOK,
       QuietSessions
  <1>3. RequestCurrent'
    BY RecordTypes, DiffType DEF session, SendCommit, CommitRequest, Request, Idle, IInv, TypeOK,
       RequestCurrent
  <1>4. FetchAccurate'
    BY RecordTypes, DiffType DEF session, SendCommit, CommitRequest, Request, Idle, IInv, TypeOK,
       FetchAccurate
  <1>5. CommitAccurate'
    BY RecordTypes, DiffType DEF session, SendCommit, CommitRequest, Request, Idle, IInv, TypeOK,
       CommitAccurate, KnownMeansAccurate, QuietSessions
  <1>6. KnownMeansAccurate'
    BY RecordTypes, DiffType DEF session, SendCommit, CommitRequest, Request, Idle, IInv, TypeOK,
       KnownMeansAccurate
  <1>7. CandidateFromCopy'
    BY RecordTypes, DiffType DEF session, SendCommit, CommitRequest, Request, Idle, IInv, TypeOK,
       CandidateFromCopy
  <1>8. RequestOfUser'
    <2>1. running[c] \in Config /\ candidate[c].tree \in Config  BY DEF IInv, TypeOK
    <2>2. DOMAIN Diff(running[c], candidate[c].tree) \subseteq edited[c]
      BY DEF Diff, SendCommit, IInv, CandidateFromCopy
    <2>3. DOMAIN CommitRequest(c).diff \subseteq CommitRequest(c).edits
      BY <2>2 DEF CommitRequest, Request
    <2>4. QED  BY <2>3 DEF SendCommit, IInv, RequestOfUser
  <1>9. QED  BY <1>1, <1>2, <1>3, <1>4, <1>5, <1>6, <1>7, <1>8 DEF IInv

\* The daemon applies a request.
LEMMA CommitsStep ==
  ASSUME IInv, NEW r \in requests, DaemonCommits(r)
  PROVE  IInv'
  <1>1. TypeOK'
    BY RecordTypes, ApplyDiff DEF session, DaemonCommits, AnswerTo, Idle, IInv, TypeOK
  <1>2. QuietSessions'
    BY RecordTypes, ApplyDiff DEF session, DaemonCommits, AnswerTo, Idle, IInv, TypeOK,
       QuietSessions
  <1>3. RequestCurrent'
    BY RecordTypes, ApplyDiff DEF session, DaemonCommits, AnswerTo, Idle, IInv, TypeOK,
       RequestCurrent
  <1>4. FetchAccurate'
    BY RecordTypes, ApplyDiff DEF session, DaemonCommits, AnswerTo, Idle, IInv, TypeOK,
       FetchAccurate
  <1>5. CommitAccurate'
    BY RecordTypes, ApplyDiff DEF session, DaemonCommits, AnswerTo, Idle, IInv, TypeOK,
       CommitAccurate, RequestCurrent
  <1>6. KnownMeansAccurate'
    BY RecordTypes, ApplyDiff DEF session, DaemonCommits, AnswerTo, Idle, IInv, TypeOK,
       KnownMeansAccurate
  <1>7. CandidateFromCopy'
    BY RecordTypes, ApplyDiff DEF session, DaemonCommits, AnswerTo, Idle, IInv, TypeOK,
       CandidateFromCopy
  <1>8. RequestOfUser'  BY DEF DaemonCommits, IInv, RequestOfUser
  <1>9. QED  BY <1>1, <1>2, <1>3, <1>4, <1>5, <1>6, <1>7, <1>8 DEF IInv

\* The daemon refuses a request.
LEMMA RefusesStep ==
  ASSUME IInv, NEW r \in requests, DaemonRefuses(r)
  PROVE  IInv'
  <1>1. TypeOK'  BY RecordTypes DEF session, DaemonRefuses, AnswerTo, Idle, IInv, TypeOK
  <1>2. QuietSessions'
    BY RecordTypes DEF session, DaemonRefuses, AnswerTo, Idle, IInv, TypeOK, QuietSessions
  <1>3. RequestCurrent'
    BY RecordTypes DEF session, DaemonRefuses, AnswerTo, Idle, IInv, TypeOK, RequestCurrent
  <1>4. FetchAccurate'
    BY RecordTypes DEF session, DaemonRefuses, AnswerTo, Idle, IInv, TypeOK, FetchAccurate
  <1>5. CommitAccurate'
    BY RecordTypes DEF session, DaemonRefuses, AnswerTo, Idle, IInv, TypeOK, CommitAccurate
  <1>6. KnownMeansAccurate'
    BY RecordTypes DEF session, DaemonRefuses, AnswerTo, Idle, IInv, TypeOK, KnownMeansAccurate
  <1>7. CandidateFromCopy'
    BY RecordTypes DEF session, DaemonRefuses, AnswerTo, Idle, IInv, TypeOK, CandidateFromCopy
  <1>8. RequestOfUser'  BY DEF DaemonRefuses, IInv, RequestOfUser
  <1>9. QED  BY <1>1, <1>2, <1>3, <1>4, <1>5, <1>6, <1>7, <1>8 DEF IInv

\* A call ends with an error, whatever becomes of the request.
LEMMA BreakStep ==
  ASSUME IInv, NEW c \in Client, Break(c)
  PROVE  IInv'
  <1>1. TypeOK'  BY RecordTypes, AbandonedRequests DEF session, Break, Idle, IInv, TypeOK
  <1>2. QuietSessions'
    BY RecordTypes, AbandonedRequests DEF session, Break, Idle, IInv, TypeOK, QuietSessions
  <1>3. RequestCurrent'
    BY RecordTypes, AbandonedRequests DEF session, Break, Idle, IInv, TypeOK, RequestCurrent
  <1>4. FetchAccurate'
    BY RecordTypes, AbandonedRequests DEF session, Break, Idle, IInv, TypeOK, FetchAccurate
  <1>5. CommitAccurate'
    BY RecordTypes, AbandonedRequests DEF session, Break, Idle, IInv, TypeOK, CommitAccurate
  <1>6. KnownMeansAccurate'
    BY RecordTypes, AbandonedRequests DEF session, Break, Idle, IInv, TypeOK, KnownMeansAccurate
  <1>7. CandidateFromCopy'
    BY RecordTypes, AbandonedRequests DEF session, Break, Idle, IInv, TypeOK, CandidateFromCopy
  <1>8. RequestOfUser'  BY AbandonedRequests DEF Break, IInv, RequestOfUser
  <1>9. QED  BY <1>1, <1>2, <1>3, <1>4, <1>5, <1>6, <1>7, <1>8 DEF IInv

\* The answer to a commit arrives.
LEMMA ReceiveStep ==
  ASSUME IInv, NEW c \in Client, Receive(c)
  PROVE  IInv'
  <1>1. TypeOK'
    <2>1. phase' \in [Client -> {"down", "fetching", "idle", "committing"}]
      BY DEF Receive, Idle, IInv, TypeOK
    <2>2. candidate' \in [Client -> [some : BOOLEAN, tree : Config]]
      BY RecordTypes DEF Receive, Idle, IInv, TypeOK
    <2>3. running' \in [Client -> Config] /\ config' \in Config
      BY DEF Receive, Idle, IInv, TypeOK
    <2>4. answer' \in [Client -> [status : {"none", "ok", "error"}, data : Config]]
      BY RecordTypes DEF Receive, Idle, IInv, TypeOK
    <2>5. edited' \in [Client -> SUBSET Node] /\ known' \in [Client -> BOOLEAN]
      BY DEF Receive, Idle, IInv, TypeOK
    <2>6. requests' \subseteq [client : Client, diff : Change, waited : BOOLEAN, edits : SUBSET Node]
      BY DiffType DEF Receive, Idle, IInv, TypeOK
    <2>7. \A r \in requests' : r.waited => phase'[r.client] = "committing" /\ answer'[r.client] = NoAnswer
      BY RecordTypes DEF Receive, Idle, IInv, TypeOK, QuietSessions
    <2>8. \A r, s \in requests' : r.waited /\ s.waited /\ r.client = s.client => r = s
      BY DEF Receive, Idle, IInv, TypeOK
    <2>9. QED  BY <2>1, <2>2, <2>3, <2>4, <2>5, <2>6, <2>7, <2>8 DEF TypeOK
  <1>2. QuietSessions'  BY RecordTypes DEF Receive, Idle, IInv, TypeOK, QuietSessions
  <1>3. RequestCurrent'  BY RecordTypes DEF Receive, Idle, IInv, TypeOK, RequestCurrent
  <1>4. FetchAccurate'  BY RecordTypes DEF Receive, Idle, IInv, TypeOK, FetchAccurate
  <1>5. CommitAccurate'  BY RecordTypes DEF Receive, Idle, IInv, TypeOK, CommitAccurate
  <1>6. KnownMeansAccurate'
    BY RecordTypes DEF Receive, Idle, IInv, TypeOK, KnownMeansAccurate, CommitAccurate
  <1>7. CandidateFromCopy'  BY RecordTypes DEF Receive, Idle, IInv, TypeOK, CandidateFromCopy
  <1>8. RequestOfUser'  BY DEF Receive, IInv, RequestOfUser
  <1>9. QED  BY <1>1, <1>2, <1>3, <1>4, <1>5, <1>6, <1>7, <1>8 DEF IInv

\* The invariant is one on the variables.
LEMMA StutterStep == IInv /\ UNCHANGED vars => IInv'
  BY DEF vars, session, IInv, TypeOK, QuietSessions, RequestCurrent, FetchAccurate,
         CommitAccurate, KnownMeansAccurate, CandidateFromCopy, RequestOfUser, Idle

\* Every step keeps the invariant.
LEMMA NextInvariant == IInv /\ [Next]_vars => IInv'
  <1> SUFFICES ASSUME IInv, [Next]_vars  PROVE IInv'  OBVIOUS
  <1>1. ASSUME NEW c \in Client, Session(c)  PROVE IInv'
    BY <1>1, FetchStep, NewStep, ExitStep, RefreshStep, LeaveStep, SendStep, ReceiveStep,
       EditStep DEF Session
  <1>2. ASSUME Daemon  PROVE IInv'
    BY <1>2, CommitsStep, RefusesStep, ServeGetStep, BreakStep DEF Daemon
  <1>3. QED  BY <1>1, <1>2, StutterStep DEF Next

\* The invariant holds at every step.
LEMMA Invariant == Spec => []IInv
  BY InitInvariant, NextInvariant, PTL DEF Spec

-----------------------------------------------------------------------------
(***************************************************************************)
(* What the invariant says of the system.                                   *)
(***************************************************************************)

\* The types, and the calls are synchronous: a session waits for one request.
THEOREM TypeInvariant == Spec => []TypeOK
  <1>1. IInv => TypeOK  BY DEF IInv
  <1>2. QED  BY <1>1, Invariant, PTL

\* A session that was told of every change since it last asked has an accurate
\* copy of the running configuration at every line it reads.
THEOREM CopyAccuracy == Spec => []KnownMeansAccurate
  <1>1. IInv => KnownMeansAccurate  BY DEF IInv
  <1>2. QED  BY <1>1, Invariant, PTL

\* However stale the copy of the session that sent it, also when that session has
\* given it up, a commit changes nothing but what its user had edited and what
\* is in an entry that its user removed.
THEOREM OthersKept == Spec => OthersSurvive
  <1> DEFINE Within(r) == \A n \in Node : config'[n] # config[n] =>
                            n \in r.edits \/ \E a \in Above[n] \cap r.edits : config'[a] = Unset
             Survive == config' # config => \E r \in requests \ requests' : Within(r)
  <1>1. ASSUME IInv, [Next]_vars, config' # config  PROVE \E r \in requests \ requests' : Within(r)
    <2>1. \E r \in requests : DaemonCommits(r)
      <3>1. ASSUME NEW c \in Client, Session(c)  PROVE FALSE
        BY <1>1, <3>1 DEF Session, Fetch, New, Exit, Refresh, Leave, SendCommit, Receive, Edit
      <3>2. ASSUME NEW c \in Client, ServeGet(c) \/ Break(c)  PROVE FALSE
        BY <1>1, <3>2 DEF ServeGet, Break
      <3>3. ASSUME NEW r \in requests, DaemonRefuses(r)  PROVE FALSE
        BY <1>1, <3>3 DEF DaemonRefuses
      <3>4. QED  BY <1>1, <3>1, <3>2, <3>3 DEF Next, Daemon, vars
    <2>2. PICK r \in requests : DaemonCommits(r)  BY <2>1
    <2>3. DOMAIN r.diff \subseteq r.edits  BY <1>1 DEF IInv, RequestOfUser
    <2>4. config' = Apply(config, r.diff) /\ requests' = requests \ {r}
          /\ Apply(config, r.diff) \in Config
      BY <2>2 DEF DaemonCommits
    <2>5. ASSUME NEW n \in Node, config'[n] # config[n]
          PROVE  n \in r.edits \/ \E a \in Above[n] \cap r.edits : config'[a] = Unset
      <3>1. CASE \E a \in Above[n] : Removes(r.diff, a)
        <4>1. PICK a \in Above[n] : Removes(r.diff, a)  BY <3>1
        <4>2. a \in r.edits /\ a \in Node  BY <2>3, <4>1, TreeAssumption DEF Removes
        <4>3. config'[a] = Unset  BY <2>4, <4>1, <4>2 DEF Apply, Removes
        <4>4. QED  BY <4>1, <4>2, <4>3
      <3>2. CASE ~\E a \in Above[n] : Removes(r.diff, a)
        BY <2>3, <2>4, <2>5, <3>2 DEF Apply
      <3>3. QED  BY <3>1, <3>2
    <2>6. QED  BY <2>4, <2>5
  <1>2. IInv /\ [Next]_vars => [Survive]_vars  BY <1>1
  <1>3. QED  BY <1>2, Invariant, PTL DEF Spec, OthersSurvive

\* What the daemon accepts is what the user edited, with the candidate's value,
\* but for a node put back to the value that a stale copy has.
THEOREM CommitsAreApplied == Spec => CommitTakesEffect
  <1> DEFINE AsWanted(c, n) ==
               LET wanted == candidate[c].tree[n]
               IN config'[n] = wanted \/ (wanted = running[c][n] /\ config[n] # wanted)
             Applied == \A c \in Client : Accepts(c) => \A n \in edited[c] : AsWanted(c, n)
  <1>1. ASSUME IInv, [Next]_vars, NEW c \in Client, Accepts(c), NEW n \in edited[c]
        PROVE  AsWanted(c, n)
    <2>1. \E r \in requests : DaemonCommits(r) /\ r.waited /\ r.client = c
      <3> USE <1>1, RecordTypes DEF IInv, TypeOK, Accepts
      <3>1. ASSUME NEW d \in Client, Session(d)  PROVE FALSE
        <4>1. answer' = answer \/ answer' = [answer EXCEPT ![d] = NoAnswer]
          BY <3>1, Zenon DEF Session, Fetch, New, Exit, Refresh, Leave, SendCommit, Receive, Edit
        <4>2. QED  BY <4>1
      <3>2. ASSUME NEW d \in Client, ServeGet(d)  PROVE FALSE
        BY <3>2 DEF ServeGet
      <3>3. ASSUME NEW d \in Client, Break(d)  PROVE FALSE
        BY <3>3 DEF Break
      <3>4. ASSUME NEW r \in requests, DaemonRefuses(r)  PROVE FALSE
        BY <3>4 DEF DaemonRefuses, AnswerTo
      <3>5. ASSUME NEW r \in requests, DaemonCommits(r)  PROVE r.waited /\ r.client = c
        BY <3>5 DEF DaemonCommits, AnswerTo
      <3>6. ~UNCHANGED vars  BY DEF vars
      <3>7. QED  BY <3>1, <3>2, <3>3, <3>4, <3>5, <3>6 DEF Next, Daemon
    <2>2. PICK r \in requests : DaemonCommits(r) /\ r.waited /\ r.client = c  BY <2>1
    <2> DEFINE tree == candidate[c].tree
               copy == running[c]
    <2>3. r.diff = Diff(copy, tree)  BY <1>1, <2>2 DEF IInv, RequestCurrent
    <2>4. config' = Apply(config, r.diff)  BY <2>2 DEF DaemonCommits
    <2>5. n \in Node /\ tree \in Config /\ copy \in Config  BY <1>1 DEF IInv, TypeOK
    <2>6. CASE \E a \in Above[n] : Removes(r.diff, a)
      <3>1. PICK a \in Above[n] : Removes(r.diff, a)  BY <2>6
      <3>2. a \in Node /\ tree[a] = Unset  BY <2>3, <2>5, <3>1, TreeAssumption DEF Removes, Diff
      <3>3. tree[n] = Unset  BY <2>5, <3>2 DEF Config
      <3>4. config'[n] = Unset  BY <2>4, <2>5, <2>6 DEF Apply
      <3>5. QED  BY <3>3, <3>4
    <2>7. CASE ~(\E a \in Above[n] : Removes(r.diff, a)) /\ tree[n] # copy[n]
      BY <2>3, <2>4, <2>5, <2>7 DEF Apply, Diff
    <2>8. CASE ~(\E a \in Above[n] : Removes(r.diff, a)) /\ tree[n] = copy[n]
      <3>1. config'[n] = config[n]  BY <2>3, <2>4, <2>5, <2>8 DEF Apply, Diff
      <3>2. QED  BY <2>8, <3>1
    <2>9. QED  BY <2>6, <2>7, <2>8
  <1>2. IInv /\ [Next]_vars => [Applied]_vars  BY <1>1
  <1>3. QED  BY <1>2, Invariant, PTL DEF Spec, CommitTakesEffect
=============================================================================
