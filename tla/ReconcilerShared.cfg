\* Two processes whose configs list the labels in different orders; the user interferes; every kind of failure.
SPECIFICATION FairSpec
CONSTANTS
  p1 = p1
  p2 = p2
  reading = reading
  work = work
  mine = mine
  Names = {reading, mine}
  Groups <- TwinGroups
  Ids = {1, 2, 3, 4}
  Processes = {p1, p2}
  Unreliable = {"readeck", "crash"}
  UserMay = {"edit", "delete", "rename"}
  UserFilters <- MCUserFilters
  NotListed = NotListed
PROPERTIES Converges FallsSilent StaysSettled PassesDeliver
