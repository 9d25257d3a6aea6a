\* One process; a user creates, edits and deletes; every kind of failure.
SPECIFICATION FairSpec
CONSTANTS
  p1 = p1
  p2 = p2
  reading = reading
  work = work
  mine = mine
  Names = {reading, work, mine}
  Groups <- MCGroups
  Ids = {1, 2, 3, 4, 5}
  Processes = {p1}
  Unreliable = {"readeck", "crash"}
  UserMay = {"create", "edit", "delete"}
  UserFilters <- MCUserFilters
  NotListed = NotListed
INVARIANTS TypeOK OnePerGroup
PROPERTIES Converges
