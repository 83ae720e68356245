CONSTANTS
  c1 = c1  c2 = c2
  Conns = {c1, c2}
  Asked <- MCAsked
  MaxUploadBytes = 6
  FormRoom = 2
  MemoryLimit = 4
  DiskRoom = 13
SPECIFICATION Spec
SYMMETRY Symmetric
INVARIANTS
  RoutedAsDocumented
  HandledIffWellFormed
  NothingWithoutKey
  TooLargeIsSaidSo
PROPERTIES
  SpaceIsGivenBack
\* the requests of a behaviour are finitely many
CHECK_DEADLOCK FALSE
