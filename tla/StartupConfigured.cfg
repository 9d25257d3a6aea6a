\* One process, a config with an interval of its own, nothing fails.
SPECIFICATION Spec
CONSTANTS
  p1 = p1
  p2 = p2
  Processes = {p1}
  Files <- OneFile
  Default <- MCDefault
  Defects = {"unset variable"}
  FlagDefault <- MCFlagDefault
  FlagsGiven <- MCFlagsGiven
  Migrations = 1
  MaxInt = 15
  Unreliable = {}
  NoTable = NoTable
INVARIANTS ServesAsConfigured
