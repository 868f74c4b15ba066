SPECIFICATION Spec
CONSTANTS
  Order <- TreeInOrder
  ERRORS = FALSE
  Trouble <- Nowhere
  Rooms <- FewOrAll
  MAX_OBS = 3
INVARIANTS
  EveryListenerHears
