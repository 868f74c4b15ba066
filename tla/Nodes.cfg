SPECIFICATION TreesSpec
CONSTANTS
  Nodes = {n1, n2, n3, n4}
  Null = Null
  NoKey = NoKey
  Keys <- Names
  Values = {v}
  Chains <- OneOrTwo
  Listeners <- Alone
  CAREFUL = TRUE
SYMMETRY NodePermutations
INVARIANTS
  NeverBroken
  ListsRight
  ChildIsFound
  FindIsRight
PROPERTY
  TreesKept
