SPECIFICATION Spec
CONSTANTS
  Word <- MCWord
  Abbrev <- MCAbbrev
  SNode <- MCSNode
  Top <- MCTop
  SParent <- MCSParent
  SKind <- MCSKind
  KeyCount <- MCKeyCount
  SName <- MCSName
  Depth <- MCDepth
  Ancestors <- MCAncestors
  ListPath <- MCListPath
  KeyDepth <- MCKeyDepth
  Internal <- MCInternal
  Order <- MCOrder
  Lines <- RouteSession
  BadWord <- MCBadWord
  HostLeaf = "hostname"
  DefaultHostname = "holo"
  InitialConfig <- MCInitialConfig
  None = "none"
INVARIANTS StackIsPath ScopeMatchesStack NoPanic PromptCurrent
PROPERTIES OnlyRejectionDangles EditsStayInScope
