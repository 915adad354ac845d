CONSTANTS
  NULL = NULL
  GlobalSaves <- MCGlobalSaves
  ResumeSaves <- MCResumeSaves
  DamageValues <- MCDamage
SPECIFICATION Spec
INVARIANT ResumeRefusedCleanly
CHECK_DEADLOCK FALSE
