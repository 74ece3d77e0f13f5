SPECIFICATION Spec
CONSTANTS
  None = None
  p1 = p1  p2 = p2
  i1 = i1  i2 = i2
  Processes = {p1, p2}
  Inodes = {i1, i2}
INVARIANT Serialised
SYMMETRY Identities
