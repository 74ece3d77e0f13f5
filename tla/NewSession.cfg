SPECIFICATION Spec
CONSTANTS
  None = None
  codex = codex  profile = profile
  m1 = m1  r1 = r1
  Supported = {codex}
  Settings <- MCSettings
INVARIANT TypeOK
PROPERTIES InputsBeforeInfluence RunGivesSnapshot RecoveryNeedsNoInputs
  CheckedIsCompatible SoundInputsAreAccepted
