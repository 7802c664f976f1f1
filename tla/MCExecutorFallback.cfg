SPECIFICATION Spec
CONSTANTS
  Modes = {"LIMIT_FALLBACK"}
  MaxRetries = 0
  Networks = {FALSE}
INVARIANTS
  NoOverfill
