------------------------ MODULE CliRefinementProofs ------------------------
(***************************************************************************)
(* The session implements the promise of Shell, for every schema, every     *)
(* command file and every set of lines.                                     *)
(***************************************************************************)
EXTENDS CliRefinesShell, CliProofs

-----------------------------------------------------------------------------
(***************************************************************************)
(* What the search for a command has found out so far.                      *)
(***************************************************************************)

\* What parse_command_try has read of the line so far.
Reading == [level |-> try.start, token |-> try.curr, negate |-> try.negate, args |-> try.args]

\* The line that is looked up, and the mode of the session that entered it.
LineKept ==
  /\ AtRest => cmd.line = << >>
  /\ ~AtRest => cmd.line \in Lines /\ mode.config = cmd.orig.config

\* The parser has read the words before the next one, and that in one way only.
AttemptReads ==
  /\ pc \in {"words", "run"} =>
       /\ try.next \in 1..(Len(cmd.line) + 1)
       /\ ReadingsAfter(try.start, mode.config, cmd.line)[try.next - 1] = {Reading}
  /\ pc = "run" => try.next = Len(cmd.line) + 1 /\ IsCommand

\* The levels at which a line may be read: that of a token and those above it.
LevelsAbove(t) == {YangRoot} \cup {FullToken(n) : n \in Ancestors[t[1]]}
LevelsOf(m) == IF m.config THEN LevelsAbove(WdToken(m)) ELSE {ExecRoot}

\* The parser tries one of these levels at a time, with the CLI stack of it.
LevelTried ==
  /\ pc \in {"words", "run"} =>
       /\ try.start \in LevelsOf(cmd.orig)
       /\ mode.config => StackAround(try.start[1])
  /\ pc = "words" => try.start = cmd.child
  /\ pc = "climb" /\ cmd.child \in YangToken => cmd.child[1] \in Ancestors[WdToken(cmd.orig)[1]]

\* No command is found at a level.
NotKnown(level) ==
  \A c \in Readings(level, cmd.orig.config, cmd.line) :
    c.token = c.level \/ Action(c.token) = "none"

\* The line is not known at the levels that the walk has left behind.
Unsearched ==
  CASE pc \in {"words", "run"} /\ mode.config -> LevelsAbove(try.start)
    [] pc \in {"words", "run"} /\ ~mode.config -> {ExecRoot}
    [] pc = "climb" /\ cmd.child \in YangToken -> LevelsAbove(FullToken(SParent[cmd.child[1]]))
    [] OTHER -> {}
Searched == ~AtRest => \A level \in LevelsOf(cmd.orig) \ Unsearched : NotKnown(level)

-----------------------------------------------------------------------------
(***************************************************************************)
(* These hold at every step.                                                *)
(***************************************************************************)

SearchInv == LineKept /\ AttemptReads /\ LevelTried /\ Searched

\* They say nothing of a program at rest.
LEMMA RestSearch ==
  ASSUME pc' \in {"ready", "exited"}, cmd'.line = << >>
  PROVE  SearchInv'
BY DEF SearchInv, LineKept, AttemptReads, LevelTried, Searched, AtRest

\* The search starts at the level of the innermost CLI node with no word read.
LEMMA EnterSearch ==
  ASSUME IInv, NEW line \in Lines, Enter(line)
  PROVE  SearchInv'
<1> DEFINE wd == WdToken(mode)
<1>1. /\ pc' = "words" /\ mode' = mode /\ cmd'.orig = mode /\ cmd'.line = line /\ cmd'.child = wd
      /\ try' = TryFrom(wd)
  BY DEF Enter, session
<1>2. line \in Seq(Word) /\ Len(line) \in Nat
  BY LinesAssumption, LenProperties
<1>3. /\ wd \in LevelsOf(mode)
      /\ mode.config => StackAround(wd[1])
  <2>1. CASE mode.config
    <3>1. mode \in CommandMode /\ IsPath(mode.nodes)
      BY DEF IInv, TypeOK, SessionTypeOK, StackIsPath
    <3>2. /\ wd = YangRoot \/ \E n \in SNode : SKind[n] = "list" /\ wd = FullToken(n)
          /\ StackAround(wd[1])
      BY <2>1, <3>1, WorkingToken
    <3> HIDE DEF wd
    <3>3. ASSUME NEW n \in SNode, wd = FullToken(n) PROVE n \in Ancestors[wd[1]]
      <4>1. wd[1] = n
        BY <3>3, InnerToken
      <4> QED BY <4>1, PathStep
    <3>4. wd \in LevelsAbove(wd)
      BY <3>2, <3>3 DEF LevelsAbove
    <3> QED BY <2>1, <3>2, <3>4 DEF LevelsOf, wd
  <2>2. CASE ~mode.config
    BY <2>2 DEF LevelsOf, WdToken
  <2> QED BY <2>1, <2>2
<1>4. LineKept'
  BY <1>1 DEF LineKept, AtRest
<1>5. AttemptReads'
  <2>1. ReadingsAfter(wd, mode.config, line)[0] = {NothingRead(wd)}
    BY <1>2, ReadingsStep
  <2>2. try'.next = 1 /\ try'.start = wd /\ Reading' = NothingRead(wd)
    BY <1>1 DEF TryFrom, Reading, NothingRead
  <2> HIDE DEF wd
  <2> QED BY <1>1, <1>2, <2>1, <2>2 DEF AttemptReads
<1>6. LevelTried'
  BY <1>1, <1>3 DEF LevelTried, TryFrom, StackAround
<1>7. Searched'
  BY <1>1 DEF Searched, Unsearched, LevelsOf, TryFrom
<1> QED BY <1>4, <1>5, <1>6, <1>7 DEF SearchInv

\* A word that selects a token takes the reading one word further.
LEMMA MatchWordSearch ==
  ASSUME IInv, SearchInv, MatchWord
  PROVE  SearchInv'
<1> DEFINE R == ReadingsAfter(try.start, mode.config, cmd.line)
           first == try.next = 1
<1>1. /\ pc = "words" /\ pc' = "words" /\ cmd' = cmd /\ mode' = mode
      /\ try.next <= Len(cmd.line)
  BY DEF MatchWord, session
<1>2. PICK t \in Selected(try.curr, AddInternal, CurrentWord) :
        try' = IF try.next = 1 /\ TokenName(t) = "no"
               THEN [try EXCEPT !.negate = TRUE, !.next = try.next + 1]
               ELSE [try EXCEPT !.curr = t, !.next = try.next + 1,
                       !.args = IF ~HasArgument(t) THEN try.args
                                ELSE Append(try.args, IF IsString(t) THEN CurrentWord
                                                      ELSE TokenName(t))]
  BY DEF MatchWord
<1>3. try \in TryLocals /\ cmd.line \in Seq(Word) /\ Len(cmd.line) \in Nat
  BY LenProperties DEF IInv, TypeOK, ParserTypeOK, CmdLocals
<1>4. /\ try'.start = try.start /\ try'.next = try.next + 1
      /\ Reading' = Taking(Reading, t, CurrentWord, first)
  <2>1. CASE first /\ TokenName(t) = "no"
    BY <1>2, <1>3, <2>1 DEF TryLocals, Reading, Taking
  <2>2. CASE ~ (first /\ TokenName(t) = "no")
    BY <1>2, <1>3, <2>2 DEF TryLocals, Reading, Taking
  <2> QED BY <2>1, <2>2
<1>5. /\ try.next \in 1..Len(cmd.line) /\ try'.next \in 1..(Len(cmd.line) + 1)
      /\ try'.next - 1 = try.next
  <2>1. try.next \in Nat \ {0}
    BY <1>3 DEF TryLocals
  <2> QED BY <1>1, <1>3, <1>4, <2>1
<1>6. R[try.next] = TakingWord({Reading}, mode.config, CurrentWord, first)
  <2>1. R[try.next - 1] = {Reading}
    BY <1>1 DEF SearchInv, AttemptReads
  <2>2. R[try.next] = TakingWord(R[try.next - 1], mode.config, cmd.line[try.next], first)
    BY <1>3, <1>5, ReadingsStep
  <2> QED BY <2>1, <2>2 DEF CurrentWord
<1>7. TakingWord({Reading}, mode.config, CurrentWord, first) = {Reading'}
  <2>1. Reading.token = try.curr
    BY DEF Reading
  <2>2. t \in Selected(Reading.token, first /\ mode.config, CurrentWord)
    BY <2>1 DEF AddInternal
  <2>3. \A u \in Selected(Reading.token, first /\ mode.config, CurrentWord) : u = t
    BY <2>2, SelectedUnique
  <2> QED BY <1>4, <2>2, <2>3 DEF TakingWord
<1>8. AttemptReads'
  <2>1. R' = R
    BY <1>1, <1>4
  <2> HIDE DEF R
  <2>2. R'[try'.next - 1] = {Reading'}
    BY <1>5, <1>6, <1>7, <2>1
  <2> QED BY <1>1, <1>5, <2>2 DEF AttemptReads, R
<1>9. LineKept' /\ LevelTried' /\ Searched'
  BY <1>1, <1>4 DEF SearchInv, LineKept, LevelTried, Searched, Unsearched, AtRest, StackAround,
     NotKnown
<1> QED BY <1>8, <1>9 DEF SearchInv

\* The end of the line is reached with one reading, which is a command.
LEMMA CommandFoundSearch ==
  ASSUME IInv, SearchInv, CommandFound
  PROVE  SearchInv'
<1>1. /\ pc = "words" /\ pc' = "run" /\ cmd' = cmd /\ mode' = mode /\ try' = try
      /\ try.next > Len(cmd.line) /\ IsCommand
  BY DEF CommandFound, session
<1>2. try.next = Len(cmd.line) + 1
  <2>1. try.next \in 1..(Len(cmd.line) + 1) /\ Len(cmd.line) \in Nat
    BY <1>1, LenProperties DEF SearchInv, AttemptReads, IInv, TypeOK, ParserTypeOK, CmdLocals
  <2> QED BY <1>1, <2>1
<1>3. AttemptReads'
  BY <1>1, <1>2 DEF SearchInv, AttemptReads, Reading, IsCommand
<1>4. LineKept' /\ LevelTried' /\ Searched'
  BY <1>1 DEF SearchInv, LineKept, LevelTried, Searched, Unsearched, AtRest, StackAround, NotKnown
<1> QED BY <1>3, <1>4 DEF SearchInv

\* When an attempt fails the line is not known at the level that was tried, and
\* what is left are the levels above it.
LEMMA FailSearch ==
  ASSUME LInv, SearchInv, WordUnresolved \/ CommandIncomplete
  PROVE  SearchInv'
<1> DEFINE R == ReadingsAfter(try.start, mode.config, cmd.line)
           start == try.start
<1>1. /\ IInv /\ cmd \in CmdLocals /\ try \in TryLocals /\ cmd.line \in Seq(Word) /\ Len(cmd.line) \in Nat
  BY LenProperties DEF LInv, IInv, TypeOK, ParserTypeOK, CmdLocals
<1>2. /\ pc = "words" /\ pc' = "climb" /\ mode' = mode
      /\ cmd'.line = cmd.line /\ cmd'.orig = cmd.orig /\ cmd'.child = cmd.child
  BY <1>1 DEF WordUnresolved, CommandIncomplete, FailTry, session, CmdLocals
<1>3. /\ try.next \in 1..(Len(cmd.line) + 1) /\ R[try.next - 1] = {Reading}
      /\ start \in LevelsOf(cmd.orig) /\ start = cmd.child
      /\ mode.config = cmd.orig.config /\ cmd.line \in Lines
  BY <1>2 DEF SearchInv, AttemptReads, LevelTried, LineKept, AtRest
<1>4. NotKnown(start)
  <2>1. CASE WordUnresolved
    <3>1. try.next \in 1..Len(cmd.line)
      BY <1>1, <1>3, <2>1 DEF WordUnresolved
    <3>2. R[try.next] = TakingWord(R[try.next - 1], mode.config, cmd.line[try.next], try.next = 1)
      BY <1>1, <3>1, ReadingsStep
    <3>3. Selected(Reading.token, try.next = 1 /\ mode.config, cmd.line[try.next]) = {}
      BY <2>1 DEF WordUnresolved, AddInternal, CurrentWord, Reading
    <3> HIDE DEF R
    <3>4. R[try.next] = {}
      BY <1>3, <3>2, <3>3 DEF TakingWord
    <3>5. Len(cmd.line) \in try.next..Len(cmd.line) /\ try.next \in 0..Len(cmd.line)
      BY <1>1, <3>1
    <3>6. R[Len(cmd.line)] = {}
      BY <1>1, <3>4, <3>5, NoReading DEF R
    <3> QED BY <1>3, <3>6 DEF NotKnown, Readings, R, start
  <2>2. CASE CommandIncomplete
    <3>1. try.next - 1 = Len(cmd.line) /\ ~IsCommand
      BY <1>1, <1>3, <2>2 DEF CommandIncomplete
    <3>2. Readings(start, cmd.orig.config, cmd.line) = {Reading}
      BY <1>3, <3>1 DEF Readings
    <3> QED BY <3>1, <3>2 DEF NotKnown, IsCommand, Reading
  <2> QED BY <2>1, <2>2
<1> HIDE DEF R
<1>5. AttemptReads' /\ LineKept'
  BY <1>2, <1>3 DEF AttemptReads, LineKept, AtRest
<1>6. start \in YangToken => start[1] \in Ancestors[WdToken(cmd.orig)[1]]
  <2> SUFFICES ASSUME start \in YangToken PROVE start[1] \in Ancestors[WdToken(cmd.orig)[1]]
    OBVIOUS
  <2> HIDE DEF start
  <2>1. start \notin Roots
    BY TokenShape
  <2>2. PICK n \in Ancestors[WdToken(cmd.orig)[1]] : start = FullToken(n)
    BY <1>3, <2>1 DEF LevelsOf, LevelsAbove, Roots
  <2> QED BY <2>2 DEF FullToken
<1>7. LevelTried'
  BY <1>2, <1>3, <1>6 DEF LevelTried
<1>8. ASSUME NEW level \in LevelsOf(cmd.orig), level \notin Unsearched'
      PROVE  NotKnown(level)
  <2>1. CASE level \notin Unsearched
    BY <1>2, <2>1 DEF SearchInv, Searched, AtRest
  <2>2. CASE level \in Unsearched /\ ~mode.config
    BY <1>2, <1>3, <1>4, <2>2 DEF LevelsOf
  <2>3. CASE level \in Unsearched /\ mode.config
    <3>1. level \in LevelsAbove(start) /\ LevelStart(start)
      BY <1>2, <2>3 DEF Unsearched, LInv, FoundBelow
    <3> HIDE DEF start
    <3>2. CASE start = YangRoot
      BY <1>4, <3>1, <3>2, RootsDiffer, PathAssumption DEF LevelsAbove
    <3>3. CASE start # YangRoot
      <4>1. PICK n \in SNode : start = FullToken(n)
        BY <3>1, <3>3 DEF LevelStart
      <4>2. start[1] = n /\ start \in YangToken /\ FullToken(SParent[n])[1] = SParent[n]
        BY <4>1, InnerToken DEF FullToken
      <4>3. Ancestors[n] = Ancestors[SParent[n]] \cup {n}
        BY PathStep
      <4>4. level = start \/ level \in LevelsAbove(FullToken(SParent[n]))
        BY <3>1, <4>1, <4>2, <4>3 DEF LevelsAbove
      <4>5. Unsearched' = LevelsAbove(FullToken(SParent[n]))
        BY <1>2, <1>3, <4>2 DEF Unsearched
      <4> QED BY <1>4, <1>8, <4>4, <4>5
    <3> QED BY <3>2, <3>3
  <2> QED BY <2>1, <2>2, <2>3
<1>9. Searched'
  BY <1>2, <1>8 DEF Searched, NotKnown
<1> QED BY <1>5, <1>7, <1>9 DEF SearchInv

\* A step of the walk leaves no level out.
LEMMA ClimbSearch ==
  ASSUME LInv, SearchInv, PassKey \/ RetryAbove
  PROVE  SearchInv'
<1> DEFINE wd == WdToken(cmd.orig)
           n == cmd.child[1]
<1>1. /\ pc = "climb" /\ cmd.climb # NoToken /\ cmd.child \notin Roots /\ LeaveList /\ ClimbOn
      /\ pc' \in {"words", "climb"} /\ IInv
  BY DEF PassKey, RetryAbove, LInv
<1>2. /\ mode.config /\ mode'.config
      /\ cmd.child \in YangToken /\ cmd.climb \in YangToken \cup {YangRoot}
      /\ \/ cmd.climb = cmd.child /\ \E m \in SNode : SKind[m] = "list" /\ cmd.child = FullToken(m)
         \/ cmd.climb = ParentToken(cmd.child)
      /\ cmd'.child = cmd.climb /\ cmd'.orig = cmd.orig
      /\ ~NodeUpdate(cmd.climb) => mode' = mode
  BY <1>1, ClimbStep
<1>3. cmd'.line = cmd.line /\ cmd.line \in Seq(Word) /\ Len(cmd.line) \in Nat
  BY <1>1, LenProperties DEF ClimbOn, IInv, TypeOK, ParserTypeOK, CmdLocals
<1>4. /\ cmd.line \in Lines /\ mode.config = cmd.orig.config
      /\ n \in Ancestors[wd[1]]
  BY <1>1, <1>2 DEF SearchInv, LineKept, AtRest, LevelTried
<1>5. n \in SNode /\ wd[1] \in Node
  <2>1. cmd.orig \in CommandMode
    BY <1>1 DEF IInv, TypeOK, ParserTypeOK, CmdLocals
  <2>2. CASE cmd.orig.nodes = << >>
    BY <1>2, <1>4, <2>2, RootsDiffer, TokenShape DEF WdToken, Node
  <2>3. CASE cmd.orig.nodes # << >>
    <3>1. wd = Last(cmd.orig.nodes).token /\ Last(cmd.orig.nodes) \in CliNode
      BY <1>2, <1>4, <2>1, <2>3, ModeParts DEF WdToken
    <3> QED BY <1>2, <3>1, TokenShape DEF CliNode, Node
  <2> QED BY <2>2, <2>3
<1>6. LineKept'
  BY <1>1, <1>2, <1>3, <1>4 DEF LineKept, AtRest
<1>7. \A level \in LevelsOf(cmd.orig) \ LevelsAbove(FullToken(SParent[n])) : NotKnown(level)
  BY <1>1, <1>2 DEF SearchInv, Searched, AtRest, Unsearched
<1> HIDE DEF n, wd
<1>8. CASE PassKey
  <2>1. pc' = "climb" /\ IsString(cmd.child)
    BY <1>8 DEF PassKey
  <2>2. cmd.climb \in YangToken /\ cmd.climb[1] = n
    BY <1>2, <2>1, AboveYang DEF n
  <2>3. AttemptReads' /\ LevelTried'
    BY <1>2, <1>4, <2>1, <2>2 DEF AttemptReads, LevelTried, wd
  <2>4. Unsearched' = LevelsAbove(FullToken(SParent[n]))
    BY <1>2, <2>1, <2>2 DEF Unsearched
  <2>5. Searched'
    BY <1>2, <1>3, <1>7, <2>4 DEF Searched, NotKnown
  <2> QED BY <1>6, <2>3, <2>5 DEF SearchInv
<1>9. CASE RetryAbove
  <2>1. pc' = "words" /\ try' = TryFrom(cmd.climb) /\ ~IsString(cmd.child)
    BY <1>9 DEF RetryAbove
  <2>2. cmd.child[2] = 0
    BY <1>2, <2>1, AboveYang, TokenShape, InnerToken
  <2>3. cmd.climb = ParentToken(cmd.child)
    BY <1>2, <2>2, InnerToken
  <2>4. /\ cmd.climb = FullToken(SParent[n]) /\ cmd.climb[1] = SParent[n]
        /\ SParent[n] = Top => cmd.climb = YangRoot
        /\ SParent[n] # Top => SParent[n] \in SNode
    BY <1>2, <2>2, <2>3, AboveYang DEF n
  <2>5. cmd.climb \in LevelsOf(cmd.orig)
    <3>1. CASE SParent[n] = Top
      BY <1>2, <1>4, <2>4, <3>1 DEF LevelsOf, LevelsAbove
    <3>2. CASE SParent[n] # Top
      <4>1. SParent[n] \in Ancestors[n]
        BY <1>5, <2>4, <3>2, PathStep
      <4>2. SParent[n] \in Ancestors[wd[1]]
        BY <1>4, <1>5, <4>1, AncestorChain
      <4> QED BY <1>2, <1>4, <2>4, <4>2 DEF LevelsOf, LevelsAbove, wd
    <3> QED BY <3>1, <3>2
  <2>6. mode' = mode /\ StackAround(cmd.climb[1])
    <3>1. ~NodeUpdate(cmd.climb)
      BY <1>5, <2>4, InnerToken, SchemaAssumption, RootsDiffer DEF NodeUpdate
    <3> QED BY <1>1, <1>2, <3>1 DEF IInv, WalkMatchesStack
  <2>7. AttemptReads'
    <3>1. ReadingsAfter(cmd.climb, mode'.config, cmd.line)[0] = {NothingRead(cmd.climb)}
      BY <1>3, ReadingsStep
    <3>2. try'.next = 1 /\ try'.start = cmd.climb /\ Reading' = NothingRead(cmd.climb)
      BY <2>1 DEF TryFrom, Reading, NothingRead
    <3> QED BY <1>3, <2>1, <3>1, <3>2 DEF AttemptReads
  <2>8. LevelTried'
    <3>1. try'.start = cmd.climb
      BY <2>1 DEF TryFrom
    <3> QED BY <1>2, <2>1, <2>5, <2>6, <3>1 DEF LevelTried, StackAround
  <2>9. Unsearched' = LevelsAbove(FullToken(SParent[n]))
    BY <1>2, <2>1, <2>4 DEF Unsearched, TryFrom
  <2>10. Searched'
    BY <1>2, <1>3, <1>7, <2>9 DEF Searched, NotKnown
  <2> QED BY <1>6, <2>7, <2>8, <2>10 DEF SearchInv
<1> QED BY <1>8, <1>9

RInv == LInv /\ PromptFollows /\ SearchInv

\* Every step of the program keeps the invariant.
LEMMA SearchStep == RInv /\ [Next]_vars => RInv'
<1> SUFFICES ASSUME RInv, [Next]_vars PROVE RInv'
  OBVIOUS
<1>1. LInv /\ IInv /\ SearchInv /\ LInv' /\ PromptFollows'
  BY LineStep, PromptStep DEF RInv, LInv
<1>2. CASE \E line \in Lines : Enter(line)
  BY <1>1, <1>2, EnterSearch DEF RInv
<1>3. CASE MatchWord
  BY <1>1, <1>3, MatchWordSearch DEF RInv
<1>4. CASE CommandFound
  BY <1>1, <1>4, CommandFoundSearch DEF RInv
<1>5. CASE WordUnresolved \/ CommandIncomplete
  BY <1>1, <1>5, FailSearch DEF RInv
<1>6. CASE PassKey \/ RetryAbove
  BY <1>1, <1>6, ClimbSearch DEF RInv
<1>7. CASE GiveUp \/ Edit \/ Call
  <2>1. pc' \in {"ready", "exited"} /\ cmd'.line = << >>
    BY <1>7 DEF GiveUp, Return, Edit, SetRejected, SetApplied, Negated, Call, CmdConfig,
       CmdExitExec,
         CmdEnd, CmdExitConfig, CmdTop, CmdDiscard, CmdCommit, CmdReadCandidate, CmdPrint, IdleCmd
  <2> QED BY <1>1, <2>1, RestSearch DEF RInv
<1>8. CASE Interrupt \/ Exited
  <2>1. pc' = "exited" /\ cmd' = cmd /\ AtRest
    BY <1>8 DEF Interrupt, Exited, vars, AtRest
  <2>2. cmd'.line = << >>
    BY <1>1, <2>1 DEF SearchInv, LineKept
  <2> QED BY <1>1, <2>1, <2>2, RestSearch DEF RInv
<1>9. CASE UNCHANGED vars
  BY <1>1, <1>9 DEF RInv, vars, session, SearchInv, LineKept, AttemptReads, LevelTried, Searched,
     Unsearched, AtRest, StackAround, NotKnown, Reading, IsCommand
<1> QED BY <1>2, <1>3, <1>4, <1>5, <1>6, <1>7, <1>8, <1>9 DEF Next, Step, Parse
-----------------------------------------------------------------------------
(***************************************************************************)
(* The promise in the words of the session: Shell and Cli share the         *)
(* definitions of Configuration, and read a line alike.                     *)
(***************************************************************************)

\* A line has the same readings.
LEMMA SameReadings ==
  ASSUME NEW level, NEW config, NEW words
  PROVE  Promise!Readings(level, config, words) = Readings(level, config, words)
<1>1. Promise!ReadingsAfter(level, config, words) = ReadingsAfter(level, config, words)
  BY DEF Promise!ReadingsAfter, ReadingsAfter, Promise!TakingWord, TakingWord, Promise!Taking,
     Taking,
     Promise!NothingRead, NothingRead, Promise!Selected, Selected, Promise!Chosen, Chosen,
     Promise!MatchingTokens, MatchingTokens, Promise!Matches, Matches,
     Promise!MatchesExactly, MatchesExactly, Promise!GetTokens, GetTokens,
     Promise!OfferedParents, OfferedParents, Promise!Token, Token, Promise!YangToken, YangToken,
     Promise!InternalToken, InternalToken, Promise!NArgs, NArgs, Promise!ParentToken, ParentToken,
     Promise!IsInternal, IsInternal, Promise!FullToken, FullToken, Promise!TokenName, TokenName,
     Promise!IsString, IsString, Promise!HasArgument, HasArgument, Promise!DefaultRoot, DefaultRoot,
     Promise!ConfigRoot, ConfigRoot, Promise!YangRoot, YangRoot
<1> QED BY <1>1 DEF Promise!Readings, Readings

\* A token has the same command, and the levels of a mode are the same.
LEMMA SameLevels ==
  /\ \A t : Promise!Action(t) = Action(t)
  /\ \A m : Promise!Levels(m) = LevelsOf(m)
  /\ Promise!YangRoot = YangRoot
<1>1. ASSUME NEW t PROVE Promise!Action(t) = Action(t)
  BY DEF Promise!Action, Action, Promise!IsInternal, IsInternal, Promise!IsFullCommand,
     IsFullCommand
<1>2. ASSUME NEW n PROVE Promise!FullToken(n) = FullToken(n)
  BY DEF Promise!FullToken, FullToken, Promise!NArgs, NArgs
<1>3. Promise!YangRoot = YangRoot /\ Promise!ExecRoot = ExecRoot
  BY DEF Promise!YangRoot, YangRoot, Promise!ExecRoot, ExecRoot
<1>4. ASSUME NEW m PROVE Promise!WdToken(m) = WdToken(m)
  BY <1>3 DEF Promise!WdToken, WdToken, Promise!Last, Last
<1>5. ASSUME NEW m PROVE Promise!Levels(m) = LevelsOf(m)
  BY <1>2, <1>3, <1>4 DEF Promise!Levels, LevelsOf, LevelsAbove
<1> QED BY <1>1, <1>3, <1>5

\* What a command does is said with the same modes, paths and configurations.
LEMMA SameTerms ==
  /\ Promise!Operational = Operational /\ Promise!NoCandidate = NoCandidate
  /\ \A nodes : Promise!Configure(nodes) = Configure(nodes)
  /\ \A cfg : Promise!Some(cfg) = Some(cfg) /\ Promise!HostnameOf(cfg) = HostnameOf(cfg)
  /\ \A host, m : Promise!PromptOf(host, m) = PromptOf(host, m)
  /\ \A m : Promise!PopNode(m) = PopNode(m) /\ Promise!BaseKeys(m) = BaseKeys(m)
  /\ \A n : Promise!FullToken(n) = FullToken(n)
  /\ \A n, keys : Promise!KeysOf(n, keys) = KeysOf(n, keys)
  /\ \A keys, val : Promise!Refused(keys, val) = Refused(keys, val)
  /\ \A cfg, n, keys : Promise!Removals(cfg, n, keys) = Removals(cfg, n, keys)
  /\ \A cfg, n, keys, val : Promise!NewPath(cfg, n, keys, val) = NewPath(cfg, n, keys, val)
  /\ \A s : Promise!Last(s) = Last(s)
<1>1. Promise!Operational = Operational /\ Promise!NoCandidate = NoCandidate
  BY DEF Promise!Operational, Operational, Promise!NoCandidate, NoCandidate
<1>2. ASSUME NEW nodes PROVE Promise!Configure(nodes) = Configure(nodes)
  BY DEF Promise!Configure, Configure
<1>3. ASSUME NEW s PROVE Promise!Last(s) = Last(s) /\ Promise!Front(s) = Front(s)
  BY DEF Promise!Last, Last, Promise!Front, Front
<1>4. ASSUME NEW n, NEW keys PROVE Promise!KeysOf(n, keys) = KeysOf(n, keys)
  BY DEF Promise!KeysOf, KeysOf
<1>5. ASSUME NEW cfg PROVE Promise!Some(cfg) = Some(cfg)
  BY DEF Promise!Some, Some
<1>6. ASSUME NEW cfg PROVE Promise!HostnameOf(cfg) = HostnameOf(cfg)
  BY DEF Promise!HostnameOf, HostnameOf, Promise!At, At
<1>7. ASSUME NEW host, NEW m PROVE Promise!PromptOf(host, m) = PromptOf(host, m)
  BY <1>3 DEF Promise!PromptOf, PromptOf
<1>8. ASSUME NEW m PROVE Promise!PopNode(m) = PopNode(m) /\ Promise!BaseKeys(m) = BaseKeys(m)
  BY <1>1, <1>2, <1>3 DEF Promise!PopNode, PopNode, Promise!BaseKeys, BaseKeys
<1>9. ASSUME NEW n PROVE Promise!FullToken(n) = FullToken(n)
  BY DEF Promise!FullToken, FullToken, Promise!NArgs, NArgs
<1>10. ASSUME NEW keys, NEW val PROVE Promise!Refused(keys, val) = Refused(keys, val)
  BY DEF Promise!Refused, Refused
<1>11. ASSUME NEW cfg, NEW n, NEW keys PROVE Promise!Removals(cfg, n, keys) = Removals(cfg, n, keys)
  BY DEF Promise!Removals, Removals, Promise!At, At, Promise!Below, Below, Promise!KeysOf, KeysOf
<1>12. ASSUME NEW cfg, NEW n, NEW keys, NEW val
       PROVE  Promise!NewPath(cfg, n, keys, val) = NewPath(cfg, n, keys, val)
  BY DEF Promise!NewPath, NewPath, Promise!At, At, Promise!PathEntries, PathEntries,
     Promise!KeysOf, KeysOf
<1> QED BY <1>1, <1>2, <1>3, <1>4, <1>5, <1>6, <1>7, <1>8, <1>9, <1>10, <1>11, <1>12
-----------------------------------------------------------------------------
(***************************************************************************)
(* What the line means, when the search is over.                            *)
(***************************************************************************)

\* A command that was found is one that the line means: no level further in
\* knows the line.
LEMMA FoundIsMeant ==
  ASSUME RInv, pc = "run"
  PROVE  Reading \in Promise!Meant(cmd.orig, cmd.line)
<1> DEFINE start == try.start
<1>1. /\ IInv /\ cmd.line \in Seq(Word) /\ Len(cmd.line) \in Nat /\ try \in TryLocals
  BY LenProperties DEF RInv, LInv, IInv, TypeOK, ParserTypeOK, CmdLocals
<1>2. /\ try.next - 1 = Len(cmd.line) /\ IsCommand
      /\ ReadingsAfter(start, cmd.orig.config, cmd.line)[try.next - 1] = {Reading}
      /\ start \in LevelsOf(cmd.orig) /\ mode.config = cmd.orig.config
      /\ \A level \in LevelsOf(cmd.orig) \ Unsearched : NotKnown(level)
      /\ mode.config => LevelStart(start)
  BY <1>1 DEF RInv, SearchInv, AttemptReads, LevelTried, LineKept, AtRest, Searched, LInv,
     FoundBelow
<1>3. Reading.level = start /\ Reading.token # Reading.level /\ Action(Reading.token) # "none"
  BY <1>2 DEF IsCommand, Reading
<1>4. Reading \in Promise!Commands(cmd.orig, cmd.line)
  <2>1. Reading \in Readings(start, cmd.orig.config, cmd.line)
    BY <1>2 DEF Readings
  <2> QED BY <1>2, <1>3, <2>1, SameReadings, SameLevels DEF Promise!Commands
<1>5. ASSUME NEW d \in Promise!Commands(cmd.orig, cmd.line) PROVE ~Promise!Inside(d, Reading)
  <2>1. PICK level \in LevelsOf(cmd.orig) :
           /\ d \in Readings(level, cmd.orig.config, cmd.line)
           /\ d.token # d.level /\ Action(d.token) # "none"
    BY SameReadings, SameLevels DEF Promise!Commands
  <2>2. d.level = level
    <3>1. Len(cmd.line) \in 0..Len(cmd.line)
      BY <1>1
    <3>2. Readings(level, cmd.orig.config, cmd.line) \subseteq ReadingType(level)
      BY <1>1, <3>1, ReadingShape DEF Readings
    <3> QED BY <2>1, <3>2 DEF ReadingType
  <2>3. level \in Unsearched
    BY <1>2, <2>1 DEF NotKnown
  <2> SUFFICES ASSUME level # start, start = YangRoot \/ start[1] \in Ancestors[level[1]] PROVE FALSE
    BY <1>3, <2>2, SameLevels DEF Promise!Inside
  <2>4. CASE ~mode.config
    BY <1>2, <2>1, <2>4 DEF LevelsOf
  <2>5. CASE mode.config
    <3>1. level \in LevelsAbove(start) /\ LevelStart(start)
      BY <1>2, <2>3, <2>5 DEF Unsearched
    <3> HIDE DEF start
    <3>2. CASE start = YangRoot
      BY <3>1, <3>2, RootsDiffer, PathAssumption DEF LevelsAbove
    <3>3. CASE start # YangRoot
      <4>1. PICK n \in SNode : start = FullToken(n)
        BY <3>1, <3>3 DEF LevelStart
      <4>2. start[1] = n /\ n \in Ancestors[level[1]]
        BY <3>3, <4>1, InnerToken
      <4>3. level # YangRoot
        BY <4>2, RootsDiffer, PathAssumption
      <4>4. PICK a \in Ancestors[n] : level = FullToken(a)
        BY <3>1, <4>2, <4>3 DEF LevelsAbove
      <4>5. a \in SNode /\ level[1] = a
        BY <4>4, AncestorPath, InnerToken DEF Node
      <4>6. a = n
        BY <4>2, <4>4, <4>5, SameNode
      <4> QED BY <4>1, <4>4, <4>6
    <3> QED BY <3>2, <3>3
  <2> QED BY <2>4, <2>5
<1> QED BY <1>4, <1>5 DEF Promise!Meant, Promise!Innermost

\* The mode in which it runs is that of the level at which it was found.
LEMMA ModeOfLevel ==
  ASSUME RInv, pc = "run"
  PROVE  Promise!ModeAt(cmd.orig, Reading) = mode
<1>1. /\ mode \in CommandMode /\ cmd.orig \in CommandMode
      /\ ~mode.config => mode.nodes = << >>
      /\ ~cmd.orig.config => cmd.orig.nodes = << >>
      /\ mode.config = cmd.orig.config
      /\ Starts(mode.nodes, cmd.orig.nodes)
      /\ mode.config => StackAround(try.start[1])
  BY DEF RInv, LInv, IInv, TypeOK, SessionTypeOK, ParserTypeOK, CmdLocals, StackOfLine, SearchInv,
     LineKept, AtRest, LevelTried
<1>2. mode = [config |-> mode.config, nodes |-> mode.nodes]
      /\ cmd.orig = [config |-> cmd.orig.config, nodes |-> cmd.orig.nodes]
  BY <1>1 DEF CommandMode
<1>3. CASE ~mode.config
  <2>1. Promise!ModeAt(cmd.orig, Reading) = cmd.orig
    BY <1>1, <1>3 DEF Promise!ModeAt
  <2> QED BY <1>1, <1>2, <1>3, <2>1
<1>4. CASE mode.config
  <2> DEFINE k == Len(mode.nodes)
             s == SubSeq(cmd.orig.nodes, 1, k)
  <2>1. /\ k \in Nat /\ Len(cmd.orig.nodes) \in Nat /\ k <= Len(cmd.orig.nodes)
        /\ \A i \in 1..k : mode.nodes[i] = cmd.orig.nodes[i]
        /\ mode.nodes \in Seq(CliNode)
        /\ \A i \in 1..k : mode.nodes[i] \in CliNode
    BY <1>1, ModeParts DEF Starts
  <2>2. s = mode.nodes
    <3>1. s \in Seq(CliNode) /\ Len(s) = k /\ \A i \in 1..k : s[i] = cmd.orig.nodes[i]
      <4>1. \A i \in 1..k : cmd.orig.nodes[i] \in CliNode
        BY <2>1
      <4> HIDE DEF k
      <4> QED BY <2>1, <4>1, SubSeqProperties
    <3> HIDE DEF s
    <3> QED BY <2>1, <3>1, SeqEqual
  <2>3. Promise!ModeAt(cmd.orig, Reading) = Configure(s)
    <3>1. Reading.level = try.start /\ Len(ListPath[try.start[1]]) = k
      BY <1>1, <1>4 DEF Reading, StackAround
    <3> QED BY <1>1, <1>4, <3>1, SameTerms DEF Promise!ModeAt
  <2> QED BY <1>2, <1>4, <2>2, <2>3 DEF Configure
<1> QED BY <1>3, <1>4

\* A line that was given up is known at no level.
LEMMA GivenUp ==
  ASSUME RInv, GiveUp
  PROVE  Promise!Meant(cmd.orig, cmd.line) = {}
<1>1. pc = "climb" /\ (cmd.climb = NoToken \/ cmd.child \in Roots) /\ IInv
  BY DEF GiveUp, RInv, LInv
<1>2. cmd.child \in Roots
  <2>1. CASE cmd.climb = NoToken
    <3>1. CASE ~mode.config
      BY <1>1, <3>1 DEF IInv, WalkMatchesStack, Roots
    <3>2. CASE mode.config
      <4>1. /\ cmd.child \in YangToken \cup {YangRoot}
            /\ cmd.climb = cmd.child \/ cmd.climb = NextAncestor(cmd.child)
        BY <1>1, <3>2 DEF IInv, WalkMatchesStack
      <4>2. SUFFICES ASSUME cmd.child \in YangToken PROVE FALSE
        BY <4>1 DEF Roots
      <4>3. cmd.climb \in YangToken \cup {YangRoot}
        BY <4>1, <4>2, AboveYang, TokenShape DEF NextAncestor
      <4> QED BY <2>1, <4>3, TokenTypes
    <3> QED BY <3>1, <3>2
  <2> QED BY <1>1, <2>1
<1>3. \A level \in LevelsOf(cmd.orig) : NotKnown(level)
  <2>1. cmd.child \notin YangToken
    BY <1>2, TokenShape
  <2>2. Unsearched = {}
    BY <1>1, <2>1 DEF Unsearched
  <2> QED BY <1>1, <2>2 DEF RInv, SearchInv, Searched, AtRest
<1> QED BY <1>3, SameReadings, SameLevels DEF Promise!Meant, Promise!Innermost, Promise!Commands,
    NotKnown
-----------------------------------------------------------------------------
(***************************************************************************)
(* The step that answers a line is the step of Shell for it.                *)
(***************************************************************************)

\* The mode and the prompt that Shell knows.
LEMMA SeenAtRest ==
  ASSUME pc' \in {"ready", "exited"}
  PROVE  EnteredMode' = mode' /\ EnteredPrompt' = prompt'
BY DEF EnteredMode, EnteredPrompt, AtRest

\* Something was found: if Shell may do for it, in its mode, what the session
\* does, then the session does what Shell may do for the line.
LEMMA AnswersFound ==
  ASSUME RInv, pc = "run", cmd'.line = << >>,
         IF Action(try.curr) = "edit" THEN Promise!EditAt(Reading, mode)
         ELSE Promise!CallAt(Action(try.curr), mode)
  PROVE  Promise!Answer
<1>1. EnteredMode = cmd.orig /\ cmd.line # << >>
  BY LinesAssumption DEF EnteredMode, AtRest, RInv, SearchInv, LineKept
<1>2. Reading \in Promise!Meant(EnteredMode, cmd.line) /\ Promise!ModeAt(EnteredMode, Reading) = mode
  BY <1>1, FoundIsMeant, ModeOfLevel
<1>3. Promise!Action(Reading.token) = Action(try.curr)
  BY SameLevels DEF Reading
<1>4. Promise!Execute
  BY <1>2, <1>3 DEF Promise!Execute
<1> QED BY <1>1, <1>4 DEF Promise!Answer

\* The callbacks.
LEMMA CallAnswers ==
  ASSUME RInv, Call, NEW callback, callback = Action(try.curr)
  PROVE  Promise!CallAt(callback, mode)
<1>1. /\ pc = "run" /\ pc' \in {"ready", "exited"} /\ callback \in Callback
  BY DEF Call, CmdConfig, CmdExitExec, CmdEnd, CmdExitConfig, CmdTop, CmdDiscard, CmdCommit,
     CmdReadCandidate, CmdPrint, Calling, Return, CandidateReader, Callback, ExecCallback,
     ConfigCallback, PlainCallback
<1>2. /\ mode \in CommandMode /\ (~mode.config => mode.nodes = << >>) /\ TokenOfMode
      /\ prompt = PromptOf(hostname, mode)
  BY DEF RInv, LInv, IInv, TypeOK, SessionTypeOK, PromptFollows
<1>3. ~mode.config => mode = Operational
  BY <1>2 DEF CommandMode, Operational
<1>4. EnteredMode' = mode' /\ EnteredPrompt' = prompt'
  BY <1>1, SeenAtRest
<1>5. callback = "cmd_config" => ~mode.config
  <2> SUFFICES ASSUME callback = "cmd_config" PROVE ~mode.config
    OBVIOUS
  <2>1. try.curr \in InternalToken /\ IsInternal(try.curr)
    <3>1. CASE try.curr \in YangToken
      BY <3>1, TokenShape DEF Action
    <3> QED BY <1>1, <1>2, <3>1, TokenShape DEF TokenOfMode, Token
  <2>2. try.curr[1] \in DOMAIN Internal /\ Internal[try.curr[1]].action = "cmd_config"
    BY <2>1, TokenShape DEF Action
  <2>3. Internal[try.curr[1]].tree = "exec"
    BY <2>2, InternalAssumption DEF ExecCallback
  <2> QED BY <1>1, <1>2, <2>1, <2>3, TokenShape DEF TokenOfMode, Roots
<1>6. ASSUME UNCHANGED <<running, hostname>>,
             candidate' = Promise!CandidateAfter(callback, mode),
             (pc' # "exited") = (callback # "cmd_exit_exec"),
             mode' = Promise!ModeAfter(callback, mode), prompt' = PromptOf(hostname', mode')
      PROVE  Promise!CallAt(callback, mode)
  BY <1>4, <1>6, SameTerms DEF Promise!CallAt, Promise!Become
<1>7. CASE CmdConfig
  <2>1. callback = "cmd_config" /\ ModeSet(Configure(<< >>)) /\ UNCHANGED <<running, hostname>> /\ Return
    BY <1>7 DEF CmdConfig, Calling
  <2>2. mode # Configure(<< >>) /\ Configure(<< >>).config
    BY <1>5, <2>1 DEF Configure
  <2>3. candidate' = Some(running) /\ mode' = Configure(<< >>) /\ prompt' = PromptOf(hostname, mode')
    BY <1>5, <2>1, <2>2 DEF ModeSet, MoveTo
  <2> QED BY <1>6, <2>1, <2>3, SameTerms DEF Promise!CandidateAfter, Promise!ModeAfter, Return
<1>8. CASE CmdExitExec
  <2>1. callback = "cmd_exit_exec" /\ pc' = "exited" /\ UNCHANGED session
    BY <1>8 DEF CmdExitExec, Calling
  <2> QED BY <1>2, <1>6, <2>1 DEF Promise!CandidateAfter, Promise!ModeAfter, session
<1>9. CASE CmdEnd
  <2>1. callback = "cmd_end" /\ ModeSet(Operational) /\ UNCHANGED <<running, hostname>> /\ Return
    BY <1>9 DEF CmdEnd, Calling
  <2>2. /\ mode' = Operational /\ prompt' = PromptOf(hostname, mode')
        /\ candidate' = IF mode.config THEN NoCandidate ELSE candidate
    <3>1. CASE mode.config
      <4>1. mode # Operational /\ ~Operational.config
        BY <3>1 DEF Operational
      <4> QED BY <2>1, <3>1, <4>1 DEF ModeSet, MoveTo
    <3>2. CASE ~mode.config
      BY <1>2, <1>3, <2>1, <3>2 DEF ModeSet
    <3> QED BY <3>1, <3>2
  <2> QED BY <1>6, <2>1, <2>2, SameTerms DEF Promise!CandidateAfter, Promise!ModeAfter, Return
<1>10. CASE CmdExitConfig
  <2>1. /\ callback = "cmd_exit_config" /\ MoveTo(PopNode(mode)) /\ Return
        /\ UNCHANGED <<candidate, running, hostname>>
    BY <1>10 DEF CmdExitConfig, Calling
  <2> QED BY <1>6, <2>1, SameTerms DEF Promise!CandidateAfter, Promise!ModeAfter, Return, MoveTo
<1>11. CASE CmdTop
  <2>1. /\ callback = "cmd_top" /\ MoveTo(Configure(<< >>)) /\ Return
        /\ UNCHANGED <<candidate, running, hostname>>
    BY <1>11 DEF CmdTop, Calling
  <2> QED BY <1>6, <2>1, SameTerms DEF Promise!CandidateAfter, Promise!ModeAfter, Return, MoveTo
<1>12. CASE CmdDiscard
  <2>1. /\ callback = "cmd_discard" /\ candidate' = Some(running) /\ Return
        /\ UNCHANGED <<mode, running, hostname, prompt>>
    BY <1>12 DEF CmdDiscard, Calling
  <2> QED BY <1>2, <1>6, <2>1, SameTerms DEF Promise!CandidateAfter, Promise!ModeAfter, Return
<1>13. CASE CmdCommit
  <2>1. callback = "cmd_commit" /\ Return
    BY <1>13 DEF CmdCommit, Calling
  <2>2. Promise!CandidateAfter(callback, mode) = candidate /\ Promise!ModeAfter(callback, mode) = mode
    BY <2>1 DEF Promise!CandidateAfter, Promise!ModeAfter
  <2>3. CASE UNCHANGED session
    BY <1>2, <1>6, <2>1, <2>2, <2>3 DEF session, Return
  <2>4. CASE /\ running' = candidate.tree /\ hostname' = HostnameOf(candidate.tree)
             /\ prompt' = PromptOf(HostnameOf(candidate.tree), mode)
             /\ UNCHANGED <<mode, candidate>>
    BY <1>4, <2>1, <2>2, <2>4, SameTerms DEF Promise!CallAt, Promise!Become, Return
  <2> QED BY <1>13, <2>3, <2>4 DEF CmdCommit
<1>14. CASE CmdReadCandidate \/ CmdPrint
  <2>1. /\ callback \in (CandidateReader \ {"cmd_commit"})
                          \cup {"cmd_list", "cmd_pwd", "cmd_show_running", "cmd_show"}
        /\ UNCHANGED session /\ Return
    BY <1>14 DEF CmdReadCandidate, CmdPrint, Calling
  <2>2. callback \notin {"cmd_config", "cmd_top", "cmd_end", "cmd_exit_config", "cmd_discard", "cmd_exit_exec"}
    BY <2>1 DEF CandidateReader
  <2>3. Promise!CandidateAfter(callback, mode) = candidate /\ Promise!ModeAfter(callback, mode) = mode
    BY <2>2 DEF Promise!CandidateAfter, Promise!ModeAfter
  <2> QED BY <1>2, <1>6, <2>1, <2>2, <2>3 DEF session, Return
<1> QED BY <1>7, <1>8, <1>9, <1>10, <1>11, <1>12, <1>13, <1>14 DEF Call

\* The path that edit_candidate puts together from the keys of the level and the
\* arguments: the keys of the target, and the value if one is left.
LEMMA PathOfEdit ==
  ASSUME IInv, Editing
  PROVE  LET path == BaseKeys(mode) \o try.args IN
         /\ SubSeq(path, 1, KeyDepth[Target]) = PathKeys
         /\ (IF Len(path) > KeyDepth[Target] THEN Last(path) ELSE None) = Value
<1> DEFINE base == BaseKeys(mode)
           args == try.args
           k == KeysTaken
           d == KeyDepth[Target]
           taken == SubSeq(args, 1, k)
           path == base \o args
<1>1. /\ base \in Seq(Word) /\ args \in Seq(Word) /\ Len(base) \in Nat /\ Len(args) \in Nat
      /\ Target \in SNode /\ d \in Nat /\ k <= Len(args)
      /\ PathKeys \in Seq(Word) /\ Len(PathKeys) = d /\ PathKeys = base \o taken
  <2>1. try \in TryLocals
    BY DEF IInv, TypeOK, ParserTypeOK
  <2>2. args \in Seq(Word)
    BY <2>1 DEF TryLocals
  <2>3. EditFits /\ d \in Nat
    BY EditScope, PathStep
  <2> QED BY <2>2, <2>3, EditScope, LenProperties DEF EditFits, PathKeys
<1>2. k \in Nat
  <2>1. Skip \in 0..Len(Lists) /\ Len(Lists) \in Nat /\ Target \in Node
    BY EditScope, LenProperties DEF Node
  <2>2. CASE Skip = 0
    BY <1>1, <2>1, <2>2 DEF KeysTaken
  <2>3. CASE Skip # 0
    <3>1. Skip \in 1..Len(ListPath[Target])
      BY <2>1, <2>3 DEF Lists
    <3>2. Lists[Skip] \in Ancestors[Target]
      BY <2>1, <3>1, ListOnPath DEF Lists
    <3>3. KeyDepth[Lists[Skip]] <= d /\ KeyDepth[Lists[Skip]] \in Nat
      BY <2>1, <3>2, AncestorPath, PathStep
    <3> HIDE DEF d
    <3>4. k = d - KeyDepth[Lists[Skip]]
      BY <2>1, <2>3 DEF KeysTaken, d
    <3> QED BY <1>1, <3>3, <3>4
  <2> QED BY <2>2, <2>3
<1> HIDE DEF base, args, k, d
<1>3. /\ taken \in Seq(Word) /\ Len(taken) = k
      /\ \A i \in 1..k : taken[i] = args[i]
  <2>1. \A i \in 1..k : args[i] \in Word
    BY <1>1, <1>2, ElementOfSeq
  <2> QED BY <1>2, <2>1, SubSeqProperties
<1> HIDE DEF taken
<1>4. /\ d = Len(base) + k
      /\ \A i \in 1..Len(base) : PathKeys[i] = base[i]
      /\ \A i \in 1..k : PathKeys[Len(base) + i] = taken[i]
  BY <1>1, <1>3, ConcatProperties
<1>5. /\ path \in Seq(Word) /\ Len(path) = Len(base) + Len(args)
      /\ \A i \in 1..Len(base) : path[i] = base[i]
      /\ \A i \in 1..Len(args) : path[Len(base) + i] = args[i]
  BY <1>1, ConcatProperties
<1> HIDE DEF path
<1>6. ASSUME NEW i \in 1..d PROVE path[i] = PathKeys[i]
  <2>1. CASE i \in 1..Len(base)
    BY <1>4, <1>5, <2>1
  <2>2. CASE i \notin 1..Len(base)
    <3>1. /\ i - Len(base) \in 1..k /\ i - Len(base) \in 1..Len(args)
          /\ Len(base) + (i - Len(base)) = i
      BY <1>1, <1>2, <1>4, <2>2
    <3> QED BY <1>3, <1>4, <1>5, <3>1
  <2> QED BY <2>1, <2>2
<1>7. SubSeq(path, 1, d) = PathKeys
  <2>1. \A i \in 1..d : path[i] \in Word
    BY <1>1, <1>6, ElementOfSeq
  <2>2. /\ SubSeq(path, 1, d) \in Seq(Word) /\ Len(SubSeq(path, 1, d)) = d
        /\ \A i \in 1..d : SubSeq(path, 1, d)[i] = path[i]
    BY <1>1, <2>1, SubSeqProperties
  <2> QED BY <1>1, <1>6, <2>2, SeqEqual
<1>8. (IF Len(path) > d THEN Last(path) ELSE None) = Value
  <2>1. CASE Len(args) > k
    <3>1. Len(path) > d /\ Len(path) = Len(base) + Len(args) /\ Len(args) \in 1..Len(args)
      BY <1>1, <1>2, <1>4, <1>5, <2>1
    <3>2. Last(path) = args[Len(args)]
      BY <1>5, <3>1 DEF Last
    <3>3. Value = Last(args)
      BY <2>1 DEF Value, args, k
    <3> QED BY <3>1, <3>2, <3>3 DEF Last
  <2>2. CASE ~ (Len(args) > k)
    <3>1. ~ (Len(path) > d)
      BY <1>1, <1>2, <1>4, <1>5, <2>2
    <3>2. Value = None
      BY <2>2 DEF Value, args, k
    <3> QED BY <3>1, <3>2
  <2> QED BY <2>1, <2>2
<1> QED BY <1>7, <1>8 DEF path, base, args, d

\* The CLI nodes of the level and those that are entered make up the stack of the
\* target, each with the first keys of its path.
LEMMA StackOfEdit ==
  ASSUME IInv, Editing
  PROVE  Promise!StackOf(Target, PathKeys) = mode.nodes \o PushedNodes
<1> DEFINE new == mode.nodes \o PushedNodes
           stack == [i \in 1..Len(Lists) |->
                       [token |-> FullToken(Lists[i]), keys |-> KeysOf(Lists[i], PathKeys)]]
           Good(i) == new[i].keys = KeysOf(Lists[i], PathKeys)
<1>1. /\ Target \in SNode /\ Target \in Node /\ Skip \in 0..Len(Lists)
      /\ Lists \in Seq(SNode) /\ Len(Lists) \in Nat /\ DOMAIN Lists = 1..Len(Lists)
      /\ \A i \in 1..Skip : Lists[i] = mode.nodes[i].token[1]
  BY EditScope, LenProperties DEF Node
<1>2. /\ Configure(new).nodes \in Seq(CliNode) /\ IsPath(Configure(new).nodes)
      /\ DOMAIN new = 1..Len(Lists)
      /\ \A i \in 1..Skip : new[i] = mode.nodes[i]
      /\ \A i \in (Skip + 1)..Len(Lists) : /\ new[i].token[1] = Lists[i]
                                           /\ new[i].keys = KeysOf(Lists[i], PathKeys)
  BY PushKeepsPath DEF CommandMode
<1>3. new \in Seq(CliNode) /\ IsPath(new) /\ Len(new) = Len(Lists)
  <2>1. Configure(new).nodes = new
    BY DEF Configure
  <2>2. new \in Seq(CliNode) /\ IsPath(new)
    BY <1>2, <2>1
  <2> HIDE DEF new
  <2>3. Len(new) \in Nat /\ DOMAIN new = 1..Len(new)
    BY <2>2, LenProperties
  <2> QED BY <1>1, <1>2, <2>2, <2>3
<1>4. Skip \in Nat /\ (Skip > 0 => KeysOf(Lists[Skip], PathKeys) = BaseKeys(mode) /\ BaseKeys(mode) = mode.nodes[Skip].keys)
  <2>1. /\ mode.nodes \in Seq(CliNode) /\ Len(mode.nodes) = Skip /\ Skip \in Nat
        /\ mode.nodes # << >> => Last(mode.nodes) = mode.nodes[Skip]
    BY ModeParts DEF IInv, TypeOK, SessionTypeOK, Skip
  <2>2. ASSUME Skip > 0
        PROVE  /\ KeysOf(Lists[Skip], PathKeys) = BaseKeys(mode)
               /\ BaseKeys(mode) = mode.nodes[Skip].keys
    <3>1. mode.nodes # << >>
      BY <2>1, <2>2
    <3>2. KeysOf(Last(mode.nodes).token[1], PathKeys) = BaseKeys(mode)
      BY <3>1, LevelOfEdit
    <3>3. Last(mode.nodes).token[1] = Lists[Skip]
      BY <1>1, <2>1, <2>2, <3>1
    <3> QED BY <2>1, <3>1, <3>2, <3>3 DEF BaseKeys
  <2> QED BY <2>1, <2>2
<1> HIDE DEF new
<1>5. \A i \in 1..Len(Lists) : NodeFits(new, i)
  BY <1>2, <1>3 DEF IsPath
<1>6. ASSUME NEW i \in 1..Len(Lists) PROVE new[i].token[1] = Lists[i]
  <2>1. CASE i \in 1..Skip
    BY <1>1, <1>2, <2>1
  <2>2. CASE i \notin 1..Skip
    <3>1. i \in (Skip + 1)..Len(Lists)
      BY <1>1, <2>2
    <3> QED BY <1>2, <3>1
  <2> QED BY <2>1, <2>2
<1>7. ASSUME NEW i \in 1..Len(Lists), i < Skip, Good(i + 1) PROVE Good(i)
  <2>1. i + 1 \in 1..Len(Lists) /\ i + 1 > 1 /\ (i + 1) - 1 = i
    BY <1>1, <1>7
  <2>2. KeysOf(new[i].token[1], new[i + 1].keys) = new[i].keys
    BY <1>5, <2>1 DEF NodeFits
  <2>3. Lists[i] \in Ancestors[Lists[i + 1]] /\ Lists[i + 1] \in Node
    <3>1. Len(ListPath[new[i + 1].token[1]]) = i + 1 /\ ListPath[new[i + 1].token[1]][i] = new[i].token[1]
      <4>1. i \in 1..(i + 1)
        BY <1>1
      <4> QED BY <1>5, <2>1, <4>1 DEF NodeFits
    <3>2. Lists[i + 1] \in SNode
      BY <1>1, <2>1, ElementOfSeq
    <3>3. Len(ListPath[Lists[i + 1]]) = i + 1 /\ ListPath[Lists[i + 1]][i] = Lists[i]
      BY <1>6, <2>1, <3>1
    <3>4. i \in 1..Len(ListPath[Lists[i + 1]])
      BY <3>3
    <3> QED BY <3>2, <3>3, <3>4, ListOnPath DEF Node
  <2>4. KeysOf(Lists[i], KeysOf(Lists[i + 1], PathKeys)) = KeysOf(Lists[i], PathKeys)
    BY <2>3, KeysBegin
  <2> QED BY <1>6, <1>7, <2>2, <2>4
<1> DEFINE T == {k \in Nat : k < Skip => Good(Skip - k)}
<1>8. 0 \in T
  <2>1. Skip > 0 => Skip \in 1..Skip
    BY <1>1
  <2> QED BY <1>2, <1>4, <2>1
<1>9. ASSUME NEW k \in T PROVE k + 1 \in T
  <2> SUFFICES ASSUME k + 1 < Skip PROVE Good(Skip - (k + 1))
    OBVIOUS
  <2> HIDE DEF Good
  <2>1. Skip - (k + 1) \in 1..Len(Lists) /\ Skip - (k + 1) < Skip /\ (Skip - (k + 1)) + 1 = Skip - k /\ k < Skip
    BY <1>1, <1>4
  <2>2. Good(Skip - k)
    BY <2>1
  <2> QED BY <1>7, <2>1, <2>2
<1>10. T = Nat
  <2> HIDE DEF T
  <2>1. T \in SUBSET Nat
    BY DEF T
  <2> QED BY <1>8, <1>9, <2>1, NatSetInduction
<1>11. ASSUME NEW i \in 1..Len(Lists) PROVE Good(i)
  <2>1. CASE i \in 1..Skip
    <3> HIDE DEF Good
    <3>1. Skip - i \in Nat /\ Skip - i < Skip /\ Skip - (Skip - i) = i
      BY <1>4, <2>1
    <3>2. Skip - i \in T
      BY <1>10, <3>1
    <3> QED BY <3>1, <3>2
  <2>2. CASE i \notin 1..Skip
    <3>1. i \in (Skip + 1)..Len(Lists)
      BY <1>1, <2>2
    <3> QED BY <1>2, <3>1
  <2> QED BY <2>1, <2>2
<1>12. ASSUME NEW i \in 1..Len(Lists) PROVE new[i] = stack[i]
  <2>1. new[i] \in CliNode
    BY <1>3, ElementOfSeq
  <2>2. new[i] = [token |-> new[i].token, keys |-> new[i].keys]
    BY <2>1 DEF CliNode
  <2>3. new[i].token = FullToken(Lists[i])
    BY <1>5, <1>6 DEF NodeFits
  <2> QED BY <1>11, <2>2, <2>3
<1>13. new = stack
  <2>1. new = [i \in 1..Len(Lists) |-> new[i]]
    BY <1>2, <1>3, LenProperties
  <2> HIDE DEF stack
  <2>2. stack = [i \in 1..Len(Lists) |-> stack[i]]
    BY DEF stack
  <2> QED BY <1>12, <2>1, <2>2
<1>14. Promise!StackOf(Target, PathKeys) = stack
  BY <1>1, SameTerms DEF Promise!StackOf, Lists
<1> QED BY <1>13, <1>14 DEF new

\* The configuration commands.
LEMMA EditAnswers ==
  ASSUME RInv, Edit
  PROVE  Promise!EditAt(Reading, mode)
<1>1. /\ IInv /\ Editing /\ pc # "exited" /\ pc' = "ready"
      /\ UNCHANGED <<running, hostname>>
      /\ prompt = PromptOf(hostname, mode)
  BY DEF RInv, LInv, PromptFollows, Edit, SetRejected, SetApplied, Negated, Editing, Return
<1>2. EnteredMode' = mode' /\ EnteredPrompt' = prompt'
  BY <1>1, SeenAtRest
<1>3. /\ Reading.token[1] = Target /\ Reading.negate = try.negate /\ Reading.args = try.args
  BY DEF Reading, Target
<1>4. /\ SubSeq(BaseKeys(mode) \o try.args, 1, KeyDepth[Target]) = PathKeys
      /\ (IF Len(BaseKeys(mode) \o try.args) > KeyDepth[Target]
          THEN Last(BaseKeys(mode) \o try.args) ELSE None) = Value
  BY <1>1, PathOfEdit
<1>5. SUFFICES
        IF try.negate
        THEN /\ EnteredMode' = mode /\ EnteredPrompt' = PromptOf(hostname', mode)
             /\ \E gone \in Removals(candidate.tree, Target, PathKeys) :
                  candidate' = Some(candidate.tree \ gone)
        ELSE /\ EnteredMode' = Configure(Promise!StackOf(Target, PathKeys))
             /\ EnteredPrompt' = PromptOf(hostname', Configure(Promise!StackOf(Target, PathKeys)))
             /\ candidate' = IF Refused(PathKeys, Value) THEN candidate
                             ELSE Some(NewPath(candidate.tree, Target, PathKeys, Value))
  BY <1>1, <1>3, <1>4, SameTerms DEF Promise!EditAt, Promise!Become
<1>6. Promise!StackOf(Target, PathKeys) = mode.nodes \o PushedNodes
  BY <1>1, StackOfEdit
<1>7. CASE SetRejected \/ SetApplied
  BY <1>1, <1>2, <1>6, <1>7 DEF SetRejected, SetApplied, MoveTo, Rejected
<1>8. CASE Negated
  BY <1>1, <1>2, <1>8 DEF Negated, RemovedBy
<1> QED BY <1>7, <1>8 DEF Edit

\* A search that fails is the answer to a line that no level knows.
LEMMA GiveUpAnswers ==
  ASSUME RInv, GiveUp
  PROVE  Promise!Answer
<1>1. /\ pc = "climb" /\ pc' = "ready" /\ cmd'.line = << >> /\ UNCHANGED <<running, hostname>>
      /\ ModeSet(cmd.orig) /\ IInv
  BY DEF GiveUp, Return, IdleCmd, RInv, LInv
<1>2. /\ cmd.line # << >> /\ EnteredMode = cmd.orig
      /\ EnteredPrompt = PromptOf(hostname, cmd.orig)
  BY <1>1, LinesAssumption DEF RInv, SearchInv, LineKept, AtRest, EnteredMode, EnteredPrompt
<1>3. EnteredMode' = mode' /\ EnteredPrompt' = prompt'
  BY <1>1, SeenAtRest
<1>4. mode' = cmd.orig /\ candidate' = candidate
  <2>1. LookupStep
    BY <1>1, LookupStepHolds DEF Next, Step, Parse
  <2> QED BY <1>1, <2>1 DEF LookupStep
<1>5. prompt' = PromptOf(hostname, cmd.orig)
  BY <1>1 DEF ModeSet, MoveTo, RInv, PromptFollows
<1>6. Promise!Unknown
  BY <1>1, <1>2, <1>3, <1>4, <1>5, GivenUp DEF Promise!Unknown, Promise!state
<1> QED BY <1>1, <1>2, <1>6 DEF Promise!Answer

\* Until then Shell sees nothing.
LEMMA SearchStutters ==
  ASSUME RInv, Parse, ~GiveUp
  PROVE  UNCHANGED Promise!vars
<1>1. /\ pc \in {"words", "climb"} /\ pc' \in {"words", "climb", "run"}
      /\ cmd'.line = cmd.line /\ cmd'.orig = cmd.orig
      /\ UNCHANGED <<candidate, running, hostname>>
  <2>1. cmd \in CmdLocals
    BY DEF RInv, LInv, IInv, TypeOK, ParserTypeOK
  <2>2. CASE MatchWord \/ CommandFound
    BY <2>2 DEF MatchWord, CommandFound, session
  <2>3. CASE WordUnresolved \/ CommandIncomplete
    BY <2>1, <2>3 DEF WordUnresolved, CommandIncomplete, FailTry, session, CmdLocals
  <2>4. CASE PassKey \/ RetryAbove
    BY <2>1, <2>4 DEF PassKey, RetryAbove, ClimbOn, CmdLocals
  <2> QED BY <2>2, <2>3, <2>4 DEF Parse
<1> QED BY <1>1 DEF Promise!vars, Promise!state, EnteredMode, EnteredPrompt, AtRest

\* Every step of the session is a step of Shell, or nothing to it.
LEMMA PromiseStep == RInv /\ [Next]_vars => [Promise!Next]_(Promise!vars)
<1> SUFFICES ASSUME RInv, [Next]_vars PROVE [Promise!Next]_(Promise!vars)
  OBVIOUS
<1>1. CASE \E line \in Lines : Enter(line)
  <2>1. PICK line \in Lines : Enter(line)
    BY <1>1
  <2>2. /\ pc = "ready" /\ pc' = "words" /\ cmd'.line = line /\ cmd'.orig = mode /\ UNCHANGED session
    BY <2>1 DEF Enter
  <2>3. cmd.line = << >> /\ prompt = PromptOf(hostname, mode)
    BY <2>2 DEF RInv, SearchInv, LineKept, AtRest, PromptFollows
  <2>4. /\ EnteredMode = mode /\ EnteredMode' = mode
        /\ EnteredPrompt = prompt /\ EnteredPrompt' = PromptOf(hostname, mode)
    BY <2>2 DEF EnteredMode, EnteredPrompt, AtRest, session
  <2>5. Promise!Enter
    BY <2>2, <2>3, <2>4 DEF Promise!Enter, Promise!state, session
  <2> QED BY <2>5 DEF Promise!Next
<1>2. CASE Interrupt
  <2>1. pc = "ready" /\ pc' = "exited" /\ UNCHANGED <<session, cmd, try>> /\ cmd.line = << >>
    BY <1>2 DEF Interrupt, RInv, SearchInv, LineKept, AtRest
  <2>2. Promise!Interrupt
    BY <2>1 DEF Promise!Interrupt, EnteredMode, EnteredPrompt, AtRest, session
  <2> QED BY <2>2 DEF Promise!Next
<1>3. CASE Parse
  BY <1>3, GiveUpAnswers, SearchStutters DEF Promise!Next
<1>4. CASE Edit
  <2>1. pc = "run" /\ Action(try.curr) = "edit" /\ cmd'.line = << >>
    BY <1>4 DEF Edit, SetRejected, SetApplied, Negated, Editing, Return, IdleCmd
  <2> QED BY <1>4, <2>1, EditAnswers, AnswersFound DEF Promise!Next
<1>5. CASE Call
  <2>1. pc = "run" /\ Action(try.curr) # "edit" /\ cmd'.line = << >>
    BY <1>5 DEF Call, CmdConfig, CmdExitExec, CmdEnd, CmdExitConfig, CmdTop, CmdDiscard, CmdCommit,
       CmdReadCandidate, CmdPrint, Calling, CandidateReader, Return, IdleCmd
  <2> QED BY <1>5, <2>1, CallAnswers, AnswersFound DEF Promise!Next
<1>6. CASE Exited \/ UNCHANGED vars
  BY <1>6 DEF Exited, vars, session, Promise!vars, Promise!state, EnteredMode, EnteredPrompt, AtRest
<1> QED BY <1>1, <1>2, <1>3, <1>4, <1>5, <1>6 DEF Next, Step

-----------------------------------------------------------------------------
(***************************************************************************)
(* The theorem.                                                             *)
(***************************************************************************)

\* The session implements Shell: each line is answered as one step that reads it
\* at the innermost level that knows it and applies it to the entry of that
\* level (parser.rs, session.rs, internal_commands.rs), for every schema, every
\* command file and all lines.
THEOREM Refinement == Spec => ImplementsShell
<1>1. Init => RInv
  <2> SUFFICES ASSUME Init PROVE RInv
    OBVIOUS
  <2>1. LInv /\ PromptFollows
    BY InitInvariant DEF Init, LInv, StackOfLine, FoundBelow, FoundAtRoot, PromptFollows
  <2>2. SearchInv
    BY DEF Init, IdleCmd, SearchInv, LineKept, AttemptReads, LevelTried, Searched, AtRest
  <2> QED BY <2>1, <2>2 DEF RInv
<1>2. Init => Promise!Init
  BY SameTerms DEF Init, Promise!Init, IdleCmd, EnteredMode, EnteredPrompt, AtRest
<1>3. Spec => []RInv
  BY <1>1, SearchStep, PTL DEF Spec
<1>4. Spec => [][Promise!Next]_(Promise!vars)
  BY <1>3, PromiseStep, PTL DEF Spec
<1> QED BY <1>2, <1>4, PTL DEF Spec, ImplementsShell, Promise!Spec
=============================================================================
