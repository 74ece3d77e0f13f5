SPECIFICATION Spec
CONSTANTS
  None = None
  r1 = r1  r2 = r2
  Roots = {r1, r2}
SYMMETRY Identities
INVARIANT TypeOK
PROPERTIES ActsOnlyForActiveChange CleanIsOfOpenedTree QuietReadIsAccepted
CHECK_DEADLOCK FALSE
