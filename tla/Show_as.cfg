SPECIFICATION Spec
CONSTANTS
  Absent = Absent
  Address <- MCAddress
  Quoted <- MCQuoted
  Typed <- MCTyped
  Offered <- AsScopeLines
  Trees <- MCTrees
  Data <- MCData
INVARIANTS HelpIsTrue
