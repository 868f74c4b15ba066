SPECIFICATION Spec
CONSTANTS
  Order <- AllInOrder
  ERRORS = TRUE
  Trouble <- Middle
  Rooms <- FewOrAll
  MAX_OBS = 3
INVARIANTS
  TypeOK
  Covered
  NoOrphans
  ToldOnce
  Hears
