SPECIFICATION Spec
CONSTANTS
  c1 = c1
  c2 = c2
  entry = entry
  leaf = leaf
  set = set
  Client <- MCClient
  Node <- MCNode
  Above <- MCAbove
  Value <- MCValue
  Present = present
  Unset = unset
  MaxOrphans = 1
SYMMETRY MCSymmetry
INVARIANTS TypeOK KnownMeansAccurate
PROPERTIES OthersSurvive CommitTakesEffect
