SPECIFICATION EvidenceSpec
CONSTANTS
  None = None
  s1 = s1
  w1 = w1
  p1 = p1
  Sessions = {s1}
  Workspaces = {w1}
  Processes = {p1}
  MaxMoves = 1
PROPERTY CompletedAfterLastTurn
