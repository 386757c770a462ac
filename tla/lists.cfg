SPECIFICATION Spec
CONSTANTS
  None = None
  Empty = Empty
  r1 = r1
  r2 = r2
SYMMETRY Interchangeable
INVARIANTS
  TypeOK
  CardsAreRendered
  ListsAreCurrent
CHECK_DEADLOCK FALSE
