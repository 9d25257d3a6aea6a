\* One process; the user renames and edits collections meanwhile.
SPECIFICATION Spec
CONSTANTS
  p1 = p1
  p2 = p2
  reading = reading
  work = work
  mine = mine
  Names = {reading, work, mine}
  Groups <- MCGroups
  Ids = {1, 2, 3, 4, 5}
  Processes = {p1}
  Unreliable = {}
  UserMay = {"rename", "edit"}
  UserFilters <- MCUserFilters
  NotListed = NotListed
PROPERTIES OthersUntouched
