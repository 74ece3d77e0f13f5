SPECIFICATION PhaseOneSpec
CONSTANTS
  None = None
  s1 = s1  s2 = s2
  w1 = w1
  p1 = p1
  Sessions = {s1, s2}
  Workspaces = {w1}
  Processes = {p1}
  MaxMoves = 2
PROPERTIES PhaseOneKeepsPromise PhaseOneEnds
