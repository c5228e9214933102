-------------------------------- MODULE Batch --------------------------------
(***************************************************************************)
(* holo-cli without a terminal.  With --file (main.rs read_config_file) the *)
(* session enters configuration mode, takes the lines of the file one by    *)
(* one, prints the error of those that fail, and commits; with --command it *)
(* takes the arguments.  What a line does is what Shell says; only its      *)
(* "open" is ignored, for nobody looks at what enter_command returns here.  *)
(***************************************************************************)
EXTENDS Shell

VARIABLE stage   \* where read_config_file is

batch == <<vars, stage>>

\* mode_set, then the file is read.
ReadFile ==
  /\ stage = "start"
  /\ mode' = Configure(<< >>) /\ candidate' = Some(running)
  /\ prompt' = PromptOf(hostname, mode')
  /\ stage' = "lines"
  /\ UNCHANGED <<running, hostname, open, line>>

\* The file could not be read, which ends the process, too.
FileMissing ==
  /\ stage = "start"
  /\ stage' = "done"
  /\ UNCHANGED vars

\* The arguments of --command instead: no configuration mode, no commit.
ArgCommands ==
  /\ stage = "start"
  /\ hostname' = HostnameOf(running)
  /\ prompt' = PromptOf(hostname', mode)
  /\ stage' = "commands"
  /\ UNCHANGED <<mode, candidate, running, open, line>>

EndOfCommands ==
  /\ stage = "commands" /\ line = << >>
  /\ stage' = "done"
  /\ UNCHANGED vars

NextLine ==
  /\ stage \in {"lines", "commands"} /\ line = << >>
  /\ line' \in Lines
  /\ UNCHANGED <<state, stage>>

LineEntered ==
  /\ stage \in {"lines", "commands"}
  /\ Answer
  /\ UNCHANGED stage

EndOfFile ==
  /\ stage = "lines" /\ line = << >>
  /\ stage' = "commit"
  /\ UNCHANGED vars

\* candidate_commit, which unwraps the candidate.
FinalCommit ==
  /\ stage = "commit" /\ candidate.some
  /\ \/ UNCHANGED state
     \/ /\ running' = candidate.tree
        /\ hostname' = HostnameOf(candidate.tree)
        /\ prompt' = PromptOf(hostname', mode)
        /\ UNCHANGED <<mode, candidate, open>>
  /\ stage' = "done"
  /\ UNCHANGED line

Done == stage = "done" /\ UNCHANGED batch

\* Session::new; the host name is not looked up before a commit, and the prompt,
\* which nobody sees, is not made before mode_set.
BatchInit ==
  /\ running \in InitialConfig
  /\ mode = Operational
  /\ candidate = NoCandidate
  /\ hostname = DefaultHostname
  /\ prompt = PromptOf(hostname, mode)
  /\ open = TRUE
  /\ line = << >>
  /\ stage = "start"

BatchNext ==
  \/ ReadFile \/ FileMissing \/ ArgCommands
  \/ NextLine \/ LineEntered
  \/ EndOfFile \/ FinalCommit \/ EndOfCommands \/ Done

BatchSpec == BatchInit /\ [][BatchNext]_batch
-----------------------------------------------------------------------------
\* main.rs:114 "Commit configuration.": when the lines of the file are through
\* there is a configuration to commit.
FileIsCommitted == stage = "commit" => candidate.some
=============================================================================
