-------------------------- MODULE CliRefinesShell --------------------------
(***************************************************************************)
(* The session as the code runs it implements what the command line         *)
(* promises: while a line is being processed the promise is still in the    *)
(* state in which it was entered, and the step that answers it is the step  *)
(* of Shell for that line.                                                  *)
(***************************************************************************)
EXTENDS Cli

AtRest == pc \in {"ready", "exited"}

\* What the session will look like again if the line is not known.
EnteredMode == IF AtRest THEN mode ELSE cmd.orig
EnteredPrompt == IF AtRest THEN prompt ELSE PromptOf(hostname, cmd.orig)

Promise == INSTANCE Shell WITH mode <- EnteredMode, prompt <- EnteredPrompt,
                               open <- (pc # "exited"), line <- cmd.line

\* Every behaviour of the session - the word by word search, the walk up the
\* tree with the stack popped on the way, the counting of lists and arguments
\* in edit_candidate - is one of Shell: each line is read at the innermost level
\* that knows it, and applied to the entry of that level and to no other; a line
\* is refused only when no level knows it, and then nothing has changed.
ImplementsShell == Promise!Spec
=============================================================================
