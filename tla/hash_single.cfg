SPECIFICATION Spec
CONSTANTS
  empty = empty
  seven = seven
  eight = eight
  sixteen = sixteen
  NoText = NoText
  Texts = {empty, seven, eight, sixteen}
  Length <- MCLength
  TextHash <- MCTextHash
  Nodes = {n1, n2, n3}
  Blocks = {1, 2, 3, 4, 5}
  Sizes = {1, 2, 3}
  StackBits = {0, 1}
INVARIANT SingleIsList
