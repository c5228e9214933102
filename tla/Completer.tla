------------------------------ MODULE Completer ------------------------------
(***************************************************************************)
(* Typing a line (terminal.rs): the completer tries the unfinished line at  *)
(* the current node, under the same lock as enter_command and without       *)
(* back-tracking, and suggests what may come next.  Accepting a suggestion  *)
(* replaces the word under the cursor, or adds one, and a blank.  The       *)
(* cursor is at the end of the line.                                        *)
(*                                                                          *)
(* Entering the line is a step of Shell; control-Z enters "end" and leaves  *)
(* what was typed where it is, to be completed at another node.             *)
(***************************************************************************)
EXTENDS Shell

CONSTANTS
  TypedWord,    \* words that the user may type
  Placeholder,  \* stands for an argument in upper case: it is suggested, and can be accepted
  MaxWords      \* bound: words of a line

ASSUME CompleterAssumption ==
  /\ TypedWord \subseteq Word /\ Placeholder \in Word
  /\ "end" \in Word    \* what control-Z enters
  /\ MaxWords \in Nat

VARIABLES
  typed,        \* the words of the line
  partial       \* the cursor is right after the last word

prompted == <<vars, typed, partial>>

-----------------------------------------------------------------------------
(***************************************************************************)
(* CliCompleter::complete, for a session in mode m.                         *)
(***************************************************************************)

ReadAt(m, words) == Readings(WdToken(m), m.config, words)

\* How many words of the line the parser gets through.
Resolved(m, words) == Max({i \in 0..Len(words) : ReadAt(m, SubSeq(words, 1, i)) # {}})

\* complete_add_tokens.  Without a word to complete, string tokens are suggested
\* by the name of their argument.
Shown(tokens, unfinished) ==
  {TokenName(t) : t \in {u \in tokens : ~IsString(u)}}
  \cup {Placeholder : t \in {u \in tokens : IsString(u) /\ ~unfinished}}

\* Mutant: as for the first word, internal commands are suggested everywhere.
NextTokensAnywhere(t) == GetTokens(t, mode.config)

\* Mutant: arguments are not suggested.
NextKeywords(t) == {u \in Children(t) : ~IsString(u)}

NextTokens(t) == Children(t)

\* What follows c, the reading of a line that the parser gets through (Ok or
\* Incomplete): the last token if its word is under the cursor, those below it
\* otherwise; everything at this node if there is no command yet.
Following(m, c, unfinished) ==
  IF c.token = c.level THEN Shown(GetTokens(c.level, m.config), unfinished)
  ELSE IF unfinished THEN Shown({c.token}, TRUE)
  ELSE Shown(NextTokens(c.token), FALSE)

\* After i words that it gets through: of an ambiguous word, what it matches.
SuggestedAfter(m, words, i, unfinished) ==
  UNION {IF i = Len(words) THEN Following(m, c, unfinished)
         ELSE Shown(MatchingTokens(c.token, i = 0 /\ m.config, words[i + 1]), unfinished) :
           c \in ReadAt(m, SubSeq(words, 1, i))}

Suggestions(m, words, unfinished) ==
  SuggestedAfter(m, words, Resolved(m, words), unfinished)

\* Mutant: the suggestion is added even if there is a word to replace.
AppendWord(words, unfinished, s) == Append(words, s)

\* The span of the suggestion.
WithWord(words, unfinished, s) ==
  IF unfinished THEN Append(Front(words), s) ELSE Append(words, s)

-----------------------------------------------------------------------------
\* Reading a line starts with an empty one, or with what control-Z left.
Typing == open /\ line = << >>

TypeWord(w) ==
  /\ Typing /\ ~partial /\ Len(typed) < MaxWords
  /\ typed' = Append(typed, w) /\ partial' = TRUE
  /\ UNCHANGED vars

TypeBlank ==
  /\ Typing /\ partial
  /\ partial' = FALSE
  /\ UNCHANGED <<vars, typed>>

Accept(s) ==
  /\ Typing
  /\ typed' = WithWord(typed, partial, s) /\ Len(typed') <= MaxWords
  /\ partial' = FALSE
  /\ UNCHANGED vars

Submit ==
  /\ Typing /\ typed \in Lines
  /\ line' = typed
  /\ typed' = << >> /\ partial' = FALSE
  /\ UNCHANGED state

ControlZ ==
  /\ Typing
  /\ line' = <<"end">>
  /\ UNCHANGED <<state, typed, partial>>

Clear ==
  /\ Typing /\ typed # << >>
  /\ typed' = << >> /\ partial' = FALSE
  /\ UNCHANGED vars

Run == Answer /\ UNCHANGED <<typed, partial>>

Quit == Interrupt /\ UNCHANGED <<typed, partial>>

Left == ~open /\ UNCHANGED prompted

PromptInit == Init /\ typed = << >> /\ partial = FALSE

PromptNext ==
  \/ \E w \in TypedWord : TypeWord(w)
  \/ \E s \in Suggestions(mode, typed, partial) : Accept(s)
  \/ TypeBlank \/ Submit \/ ControlZ \/ Clear \/ Run \/ Quit \/ Left

PromptSpec == PromptInit /\ [][PromptNext]_prompted
-----------------------------------------------------------------------------
(***************************************************************************)
(* Properties.                                                              *)
(***************************************************************************)

\* The words before the one that a suggestion completes or adds.
Fixed == IF partial THEN Front(typed) ELSE typed

\* "no" alone is a line without a command, for which everything is suggested,
\* internal commands included, although they cannot follow "no".
AfterNo == \E c \in ReadAt(mode, typed) : c.negate /\ c.token = c.level

\* Whatever is suggested for a word that follows words the parser knows is
\* itself known to it there, in every mode and at every node, also for words
\* that begin like several commands or are the prefix of another.
SuggestionsParse ==
  Typing /\ ReadAt(mode, Fixed) # {} /\ ~AfterNo =>
    \A s \in Suggestions(mode, typed, partial) :
      ReadAt(mode, WithWord(typed, partial, s)) # {}

Commanded(words) == {<<c.token, c.negate>> : c \in ReadAt(mode, words)}

\* Accepting the completion of a word that the parser already understands does
\* not turn it into another command.
CompletionKeepsMeaning ==
  Typing /\ partial /\ ~AfterNo =>
    \A s \in Suggestions(mode, typed, partial) :
      ReadAt(mode, typed) # {} => Commanded(WithWord(typed, partial, s)) = Commanded(typed)

\* No word that the parser knows next is missing from the suggestions for it.
NothingMissing ==
  Typing /\ ~partial =>
    \A c \in ReadAt(mode, typed), w \in TypedWord :
      \A t \in Selected(c.token, typed = << >> /\ mode.config, w) :
        Shown({t}, FALSE) \subseteq Suggestions(mode, typed, FALSE)
=============================================================================
