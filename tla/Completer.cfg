SPECIFICATION PromptSpec
CONSTANTS
  Word <- MCWord
  Abbrev <- MCAbbrev
  SNode <- MCSNode
  Top <- MCTop
  SParent <- MCSParent
  SKind <- MCSKind
  KeyCount <- MCKeyCount
  SName <- MCSName
  Depth <- MCDepth
  Ancestors <- MCAncestors
  ListPath <- MCListPath
  KeyDepth <- MCKeyDepth
  Internal <- MCInternal
  Order <- MCOrder
  Lines <- TypedLines
  BadWord <- MCBadWord
  HostLeaf = "hostname"
  DefaultHostname = "holo"
  InitialConfig <- NoConfig
  None = "none"
  TypedWord <- MCTypedWord
  Placeholder = "NAME"
  MaxWords = 3
INVARIANTS SuggestionsParse CompletionKeepsMeaning NothingMissing
