SPECIFICATION Spec
CONSTANTS
  Absent = Absent
  Address <- MCAddress
  Quoted <- MCQuoted
  Typed <- MCAddress
  Offered <- RouterIdLines
  Trees <- MCTrees
  Data <- MCData
INVARIANTS HelpIsTrue
