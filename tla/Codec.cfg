SPECIFICATION Spec
CONSTANTS
  BYTE = 4
  INLINE = 3
  DEFLEN = 3
  Ours <- OurTrees
  Theirs <- TheirTrees
INVARIANTS
  Understood
  ReadBack
CHECK_DEADLOCK FALSE
