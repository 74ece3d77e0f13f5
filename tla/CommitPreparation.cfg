SPECIFICATION Spec
CONSTANTS
  None = None
  s1 = s1  s2 = s2
  w1 = w1  w2 = w2
  p1 = p1  p2 = p2
  Sessions = {s1, s2}
  Workspaces = {w1, w2}
  Processes = {p1, p2}
  MaxMoves = 1
SYMMETRY Identities
INVARIANTS TypeOK OneAssignment CompletedIsArchived
PROPERTIES KeepsPromise SendsRunOnce HandedIsNotArchived
