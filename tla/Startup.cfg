\* Two processes start on one fresh database, two migrations; failures, deaths and edits until they end.
SPECIFICATION FairSpec
CONSTANTS
  p1 = p1
  p2 = p2
  Processes = {p1, p2}
  Files <- MCFiles
  Default <- MCDefault
  Defects = {"unset variable"}
  FlagDefault <- MCFlagDefault
  FlagsGiven <- MCFlagsGiven
  Migrations = 2
  MaxInt = 15
  Unreliable = {"store", "crash", "edit"}
  NoTable = NoTable
INVARIANTS TypeOK UpIsSound DelayInRange
PROPERTIES ComesUp
