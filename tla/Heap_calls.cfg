CONSTANTS
  Keys = {k1, k2, k3, k4, k5, k6}
  NoKey = NoKey
  Objects = {1, 2, 3}
  LessFn <- LessRank
SYMMETRY KeySymmetry
SPECIFICATION Spec
INVARIANTS
  TypeOK
  Indexed
  RootIsLeast
PROPERTIES
  ImplementsLeastMap
