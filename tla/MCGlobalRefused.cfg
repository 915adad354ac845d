CONSTANTS
  NULL = NULL
  GlobalSaves <- MCGlobalSaves
  ResumeSaves <- MCResumeSaves
  DamageValues <- MCDamage
SPECIFICATION Spec
INVARIANT GlobalRefusedCleanly
CHECK_DEADLOCK FALSE
