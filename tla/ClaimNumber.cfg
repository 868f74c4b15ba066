SPECIFICATION Spec
CONSTANTS
  BYTE = 4
  INLINE = 3
  DEFLEN = 3
  Ours <- OurTrees
  Theirs <- TheirTrees
INVARIANTS
  NumbersKept
CHECK_DEADLOCK FALSE
