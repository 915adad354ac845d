CONSTANTS
  NULL = NULL
  GlobalSaves <- MCGlobalSaves
  ResumeSaves <- MCResumeSaves
  DamageValues <- MCDamage
SPECIFICATION Spec
INVARIANT RoundTrip
INVARIANT AcceptedIsClosed
INVARIANT Lossless
CHECK_DEADLOCK FALSE
