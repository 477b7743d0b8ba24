SPECIFICATION Spec
CONSTANTS
  Anchor = {h1, h2}
  Node = {n1, n2, n3, n4}
  Caller = {c1}
  NULL = NULL
SYMMETRY Symmetry
INVARIANTS PointersInv
PROPERTIES Implements
