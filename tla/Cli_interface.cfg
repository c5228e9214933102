SPECIFICATION Spec
CONSTANTS
  Word <- MCWord
  Abbrev <- MCAbbrev
  SNode <- MCSNode
  Top <- MCTop
  SParent <- MCSParent
  SKind <- MCSKind
  KeyCount <- MCKeyCount
  SName <- MCSName
  Depth <- MCDepth
  Ancestors <- MCAncestors
  ListPath <- MCListPath
  KeyDepth <- MCKeyDepth
  Internal <- MCInternal
  Order <- MCOrder
  Lines <- InterfaceSession
  BadWord <- MCBadWord
  HostLeaf = "hostname"
  DefaultHostname = "holo"
  InitialConfig <- MCInitialConfig
  None = "none"
INVARIANTS TypeOK StackIsPath ScopeMatchesStack WalkMatchesStack NoPanic PromptCurrent
PROPERTIES LookupKeepsSession OnlyRejectionDangles EditsStayInScope
