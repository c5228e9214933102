SPECIFICATION Spec
CONSTANTS
  Absent = Absent
  Address <- MCAddress
  Quoted <- MCQuoted
  Typed <- MCTyped
  Offered <- RightLines
  Trees <- MCTrees
  Data <- MCData
INVARIANTS TypeOK ActsAsTyped ArgumentsFit FailureReported PagerOwnsTerminal PanicHasCause
PROPERTIES CommandEnds
