CONSTANTS
  a1 = a1
  a2 = a2
  Agents <- MCAgents
  None = None
SPECIFICATION Spec
SYMMETRY Identities
INVARIANT TypeOK
PROPERTIES NobodyIsPassedOver FinishedMayBeArchived QuietQueryIsAnswered GoneIsClosed
