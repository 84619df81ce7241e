SPECIFICATION Spec
CONSTANTS
  Null = Null
  n1 = n1
  n2 = n2
  n3 = n3
  n4 = n4
  Lists = {a, b}
  Nodes = {n1, n2, n3, n4}
  Key <- MCKey
INVARIANTS
  WellLinked
PROPERTIES
  KeepsPromise
  WalkComplete
  MergeResult
  MergeEnds
